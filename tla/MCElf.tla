------------------------------- MODULE MCElf --------------------------------
(***************************************************************************)
(* Elf with sixteen pages of four bytes, seven of them shared.  Programs   *)
(* share pages, overlap, reach beyond the shared pages, into the kernel's  *)
(* or to the end of the addresses, or are not programs.                    *)
(***************************************************************************)
EXTENDS Elf, TLC

Seg(t, off, vaddr, filesz, memsz) ==
  [type |-> t, off |-> off, vaddr |-> vaddr, filesz |-> filesz, memsz |-> memsz]

(* The headers follow the first one of the file. *)
Prog(size, phdrs) ==
  [size |-> size, magic |-> TRUE, type |-> "EXEC", class |-> "32", data |-> "LSB",
   phoff |-> 2, phentsize |-> 1, phdrs |-> phdrs, elsewhere |-> {}]

(* hello: two segments that meet in a page; shall: up to the end of its    *)
(* page, and cleared bytes over the end of the next; short: its last       *)
(* header would stand behind its end; parts: its second cluster does not   *)
(* follow its first.                                                       *)
MCFile ==
  [f \in {"hello", "shall", "high", "kern", "top", "cut", "short", "parts", "late", "zero",
          "full", "wide"} |->
     CASE f = "hello" -> Prog(12, <<Seg("LOAD", 2, 4, 3, 3), Seg("other", 0, 0, 0, 0),
                                    Seg("LOAD", 5, 7, 2, 6)>>)
       [] f = "shall" -> Prog(10, <<Seg("LOAD", 2, 10, 2, 2), Seg("LOAD", 4, 12, 2, 3)>>)
       [] f = "high"  -> Prog(10, <<Seg("LOAD", 2, 6, 2, 2), Seg("LOAD", 4, 14, 1, 4)>>)
       [] f = "kern"  -> Prog(10, <<Seg("LOAD", 2, 54, 2, 2), Seg("LOAD", 4, 50, 1, 3)>>)
       [] f = "top"   -> Prog(10, <<Seg("LOAD", 2, 61, 2, 2)>>)
       [] f = "cut"   -> Prog(4, <<Seg("LOAD", 3, 9, 3, 4)>>)
       [] f = "short" -> Prog(3, <<Seg("LOAD", 2, 6, 1, 2), Seg("LOAD", 0, 9, 2, 2)>>)
       [] f = "parts" -> [Prog(8, <<Seg("LOAD", 2, 4, 3, 3), Seg("LOAD", 5, 8, 2, 3)>>)
                            EXCEPT !.elsewhere = 4..7]
       [] f = "late"  -> [Prog(8, <<Seg("LOAD", 2, 5, 1, 1)>>)
                            EXCEPT !.elsewhere = 4..7, !.phoff = 5]
       [] f = "zero"  -> Prog(8, <<Seg("LOAD", 2, 5, 1, 1), Seg("LOAD", 3, 8, 0, 0)>>)
       [] f = "full"  -> Prog(8, <<Seg("LOAD", 2, 9, 1, 61)>>)
       [] f = "wide"  -> [Prog(8, <<Seg("LOAD", 2, 5, 1, 1)>>) EXCEPT !.class = "64"]]

MCPathIn ==
  [b \in Buffer |->
     CASE b = 1  -> <<"/", "fd0", "/", "hello">>
       [] b = 2  -> <<"fd0", "/", "shall">>
       [] b = 3  -> <<"/", "/", "fd0", "/", "hello">>
       [] b = 4  -> <<"/", "fd0", "/", "high">>
       [] b = 5  -> <<"/", "fd0", "/", "kern">>
       [] b = 6  -> <<"/", "fd0", "/", "top">>
       [] b = 7  -> <<"/", "fd0", "/", "cut">>
       [] b = 8  -> <<"/", "fd0", "/", "short">>
       [] b = 9  -> <<"/", "fd0", "/", "parts">>
       [] b = 10 -> <<"/", "fd0", "/", "late">>
       [] b = 11 -> <<"/", "fd0", "/", "zero">>
       [] b = 12 -> <<"/", "fd0", "/", "wide">>
       [] b = 13 -> <<"/", "hd0", "/", "none">>
       [] b = 14 -> <<"/", "fd0", "/", "full">>
       [] OTHER  -> <<"/">>]

MCStack == {Seg("other", 0, 0, 0, 0), Seg("LOAD", 1, 6, 6, 3)}
=============================================================================
