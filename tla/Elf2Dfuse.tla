----------------------------- MODULE Elf2Dfuse -----------------------------
(* elf2dfuse turns the loadable sections of an ELF file into a DfuSe image:
   the sections, re-mapped to physical addresses, are kept in a sorted list of
   blobs; a first pass over the list tabulates the sizes that the prefixes
   announce, a second pass writes the image elements.  A field of a header
   counts as one byte of the output, so that the sizes of the two prefixes and
   of the element prefix are their numbers of fields.                         *)
EXTENDS Integers, Sequences, SequencesExt

CONSTANTS Inputs,      \* the ELF files: [valid, segments, sections]
          Alignment,   \* ELEMENT_ALIGNMENT
          MaxAddress,  \* the end of the memory that the image is for
          MaxOut       \* bound on the length of the output file

ASSUME OutputAssumption == Alignment \in Nat \ {0} /\ MaxAddress \in Nat /\ MaxOut \in Nat
ASSUME InputsAssumption == Inputs \subseteq [valid : BOOLEAN,
    segments : Seq([vaddr : Nat, memsz : Nat, paddr : Nat, filesz : Nat]),
    sections : Seq([addr : Nat, size : Nat, alloc : BOOLEAN, progbits : BOOLEAN])]

VARIABLES elf,         \* the input
          step,        \* how far main() is
          i,           \* the section, or the blob, that comes next
          blobs,       \* pm_list
          sizes,       \* file_size, target_size and image_elements
          out,         \* the bytes of the output file
          crc          \* the bytes crc32 has been calculated over

vars == <<elf, step, i, blobs, sizes, out, crc>>

----------------------------------------------------------------------------
Pad == 255
\* Byte k of section number s.
Byte(s, k) == 1000 + 100 * s + k

\* A section that is kept: writable or executable contents.
Relevant(sh) == sh.alloc /\ sh.progbits

\* Mutant: segments without contents in the file are taken as well.
CoveringEmpty(sh) == {j \in 1..Len(elf.segments) : LET p == elf.segments[j] IN
    sh.addr >= p.vaddr /\ sh.addr < p.vaddr + p.memsz}
\* The program headers that cover the section; the first of them places it.
Covering(sh) == {j \in 1..Len(elf.segments) : LET p == elf.segments[j] IN
    sh.addr >= p.vaddr /\ sh.addr < p.vaddr + p.memsz /\ p.filesz > 0}
phy_addr(sh) == LET p == elf.segments[Min(Covering(sh))] IN p.paddr + (sh.addr - p.vaddr)

\* find_blob: the addition goes before the first blob with a greater address.
find_blob(list, addition) ==
    LET after == {k \in 1..Len(list) : list[k].address > addition.address}
    IN  InsertAt(list, IF after = {} THEN Len(list) + 1 ELSE Min(after), addition)

Contiguous(k) == blobs[k + 1].address = blobs[k].address + blobs[k].count

\* The last blob of the element that starts with blob k.
ElementEnd(k) == CHOOSE e \in k..Len(blobs) :
    /\ \A j \in k..(e - 1) : Contiguous(j)
    /\ e < Len(blobs) => ~Contiguous(e)

ElementSize(k, e) == FoldLeft(LAMBDA sum, b : sum + b.count, 0, SubSeq(blobs, k, e))
Padded(n) == ((n + Alignment - 1) \div Alignment) * Alignment

\* Mutant: the list is not advanced past the element.
LastWrittenNone(k) == k - 1
\* The last blob written by `while (element_size)`: it stops as soon as the
\* size of the element is used up, and writes none for an element of size 0.
LastWritten(k) == CHOOSE e \in (k - 1)..ElementEnd(k) :
    /\ ElementSize(k, e) = ElementSize(k, ElementEnd(k))
    /\ \A j \in (k - 1)..(e - 1) : ElementSize(k, j) < ElementSize(k, ElementEnd(k))

ElementData(k) == FlattenSeq([j \in 1..(LastWritten(k) - k + 1) |->
    LET b == blobs[k + j - 1] IN [n \in 1..b.count |-> Byte(b.section, n)]])

Write(bytes) == out' = out \o bytes /\ crc' = crc \o bytes

----------------------------------------------------------------------------
Init == /\ elf \in Inputs
        /\ step = "header" /\ i = 1 /\ blobs = <<>> /\ out = <<>> /\ crc = <<>>
        /\ sizes = [file |-> 0, target |-> 0, elements |-> 0]

\* readEh and checkEh; the program headers are read along with it.
CheckHeader ==
    /\ step = "header"
    /\ step' = IF elf.valid THEN "sections" ELSE "rejected"
    /\ UNCHANGED <<elf, i, blobs, sizes, out, crc>>

\* One turn of the loop over the section headers.
ReadSection ==
    /\ step = "sections" /\ i <= Len(elf.sections)
    /\ i' = i + 1
    /\ LET sh == elf.sections[i] IN
       blobs' = IF Relevant(sh) /\ Covering(sh) # {}
                THEN find_blob(blobs, [section |-> i, count |-> sh.size, address |-> phy_addr(sh)])
                ELSE blobs
    /\ UNCHANGED <<elf, step, sizes, out, crc>>

SectionsRead ==
    /\ step = "sections" /\ i > Len(elf.sections)
    /\ step' = "count" /\ i' = 1
    /\ sizes' = [sizes EXCEPT !.file = 1 + 2]
    /\ UNCHANGED <<elf, blobs, out, crc>>

\* One turn of the outer loop of the first pass.
CountElement ==
    /\ step = "count" /\ i <= Len(blobs)
    /\ LET size == 2 + Padded(ElementSize(i, ElementEnd(i))) IN
       sizes' = [file |-> sizes.file + size, target |-> sizes.target + size, elements |-> sizes.elements + 1]
    /\ i' = ElementEnd(i) + 1
    /\ UNCHANGED <<elf, step, blobs, out, crc>>

WritePrefixes ==
    /\ step = "count" /\ i > Len(blobs)
    /\ step' = "write" /\ i' = 1
    /\ Write(<<sizes.file, sizes.target, sizes.elements>>)
    /\ UNCHANGED <<elf, blobs, sizes>>

\* One turn of the second pass: the element prefix, the blobs, the padding.
WriteElement ==
    /\ step = "write" /\ i <= Len(blobs) /\ Len(out) <= MaxOut
    /\ LET size == ElementSize(i, ElementEnd(i)) IN
       Write(<<blobs[i].address, Padded(size)>> \o ElementData(i) \o [n \in 1..(Padded(size) - size) |-> Pad])
    /\ i' = LastWritten(i) + 1
    /\ UNCHANGED <<elf, step, blobs, sizes>>

\* The suffix: the CRC-32 covers every field of it but itself, the last.
WriteSuffix ==
    /\ step = "write" /\ i > Len(blobs)
    /\ step' = "done"
    /\ out' = out \o <<Pad, 0>>
    /\ crc' = crc \o <<Pad>>
    /\ UNCHANGED <<elf, i, blobs, sizes>>

Next == \/ CheckHeader \/ ReadSection \/ SectionsRead \/ CountElement
        \/ WritePrefixes \/ WriteElement \/ WriteSuffix

Spec == Init /\ [][Next]_vars
FairSpec == Spec /\ WF_vars(Next)

----------------------------------------------------------------------------
\* Where the segments of the file say that its section s is loaded, if at all.
Places(file, s) == LET sh == file.sections[s] IN
    {p.paddr + (sh.addr - p.vaddr) : p \in {q \in ToSet(file.segments) :
        Relevant(sh) /\ q.filesz > 0 /\ sh.addr \in q.vaddr..(q.vaddr + q.memsz - 1)}}

\* What a linker makes: a section has one place, in memory, that it shares with no
\* other, and behind an empty one comes, at the same address, one that is not.
WellLinked(file) == \A s \in 1..Len(file.sections) : \A a \in Places(file, s) :
    LET size == file.sections[s].size IN
    /\ Places(file, s) = {a} /\ a + size <= MaxAddress + 1
    /\ \A t \in 1..Len(file.sections) : t # s => \A b \in Places(file, t) :
         a + size <= b \/ b + file.sections[t].size <= a
    /\ size = 0 => \E t \in (s + 1)..Len(file.sections) :
                     a \in Places(file, t) /\ file.sections[t].size > 0

\* A DfuSe loader: it takes the number of elements, their addresses and their
\* sizes from the file and writes element after element; `at` is its place.
LoadElement(l) ==
    IF l.at + 1 > Len(out) THEN [l EXCEPT !.at = Len(out) + 2]
    ELSE [at |-> l.at + 2 + out[l.at + 1],
          memory |-> [a \in 0..MaxAddress |->
              LET p == l.at + 2 + a - out[l.at]
              IN  IF a >= out[l.at] /\ a < out[l.at] + out[l.at + 1] /\ p <= Len(out)
                  THEN out[p] ELSE l.memory[a]]]
Loaded == FoldLeft(LAMBDA l, n : LoadElement(l), [at |-> 4, memory |-> [a \in 0..MaxAddress |-> Pad]],
                   [n \in 1..out[3] |-> n])

(* A loader that believes the numbers in the prefixes ("the total DFU file
   length in bytes", elf2dfuse.c:445, less the suffix; the count of
   non-contiguous "image_elements", :440) ends exactly at the suffix, with
   every byte of every kept section at its physical address: padding of one
   element never ends up over the data of another.  The CRC covers "the entire
   file, save for the CRC field itself" (:600).                               *)
ImageLoads == step = "done" =>
    /\ out[1] = Len(out) - 2 /\ out[2] = Len(out) - 5
    /\ Loaded.at = Len(out) - 1
    /\ \A s \in 1..Len(elf.sections) : \A a \in Places(elf, s), k \in 1..elf.sections[s].size :
         Loaded.memory[a + k - 1] = Byte(s, k)
    /\ crc = Front(out)

(* DFUImageSize "presents the total DFU file length in bytes" (:445): the
   program writes no more than it has announced.                              *)
ImageFits == step = "write" => Len(out) <= sizes.file

(* Every run of the program ends.                                             *)
Terminates == <>(step \in {"rejected", "done"})
=============================================================================
