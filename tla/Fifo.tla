-------------------------------- MODULE Fifo --------------------------------
(***************************************************************************)
(* The few operators on sequences and linked lists that the scheduler      *)
(* modules share, written without recursion so that they can be proved     *)
(* about.                                                                  *)
(***************************************************************************)
EXTENDS Integers, Sequences

(* The members of a sequence. *)
Members(s) == {s[i] : i \in 1..Len(s)}

(* No member occurs twice. *)
NoRepeats(s) == \A i, j \in 1..Len(s) : s[i] = s[j] => i = j

(* All but the last member. *)
Front(s) == SubSeq(s, 1, Len(s) - 1)

(* The sequence s without its k-th member. *)
Omit(s, k) == [i \in 1..(Len(s) - 1) |-> IF i < k THEN s[i] ELSE s[i + 1]]

(* The sequence s without its member t (s itself if t is not a member). *)
Without(s, t) ==
  IF t \in Members(s)
  THEN Omit(s, CHOOSE i \in 1..Len(s) : s[i] = t)
  ELSE s

(* The singly linked list with head hd, cached last cell tl and link       *)
(* function nx is the sequence s (which has no repeats).                   *)
IsList(s, hd, tl, nx, null) ==
  /\ NoRepeats(s)
  /\ s = <<>> => hd = null
  /\ s # <<>> => hd = s[1] /\ tl = s[Len(s)] /\ nx[s[Len(s)]] = null
  /\ \A i \in 1..(Len(s) - 1) : nx[s[i]] = s[i + 1]

(* A set that contains hd and the successor of each of its members. *)
Closed(S, hd, nx, null) ==
  /\ hd # null => hd \in S
  /\ \A u \in S : nx[u] # null => nx[u] \in S

(* The cells of T that are reached from hd through nx. *)
Reached(T, hd, nx, null) ==
  {t \in T : \A S \in SUBSET T : Closed(S, hd, nx, null) => t \in S}
=============================================================================
