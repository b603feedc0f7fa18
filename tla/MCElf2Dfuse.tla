--------------------------- MODULE MCElf2Dfuse ---------------------------
(* Small ELF files for Elf2Dfuse: up to three sections in the order of the
   section headers, which need not be that of their addresses, in two segments
   of which the second is loaded from elsewhere (.data).                      *)
EXTENDS Elf2Dfuse

Code == [vaddr |-> 0, memsz |-> 8, paddr |-> 4, filesz |-> 8]
Data == [vaddr |-> 20, memsz |-> 6, paddr |-> 16, filesz |-> 2]
Bss == [vaddr |-> 20, memsz |-> 8, paddr |-> 28, filesz |-> 0]

Section(addr, size) == [addr |-> addr, size |-> size, alloc |-> TRUE, progbits |-> TRUE]
Candidates ==
    {Section(a, n) : a \in {0, 2, 5, 8, 20, 23}, n \in 0..3}
    \cup {[Section(2, 1) EXCEPT !.alloc = FALSE], [Section(20, 1) EXCEPT !.progbits = FALSE]}

Files(sections) == [valid : BOOLEAN, sections : sections,
                    segments : {<<Code, Data>>, <<Bss, Data, Code>>}]

\* No two sections share an address.
Apart(s) == \A j, k \in DOMAIN s : j # k =>
    \/ s[j].addr + s[j].size <= s[k].addr
    \/ s[k].addr + s[k].size <= s[j].addr

Tables == {s \in UNION {[1..n -> Candidates] : n \in 0..3} : Apart(s)}
Linked == {file \in Files(Tables) : WellLinked(file)}
Unrestricted == Files({s \in Tables : Len(s) <= 2})
=============================================================================
