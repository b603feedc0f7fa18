-------------------------------- MODULE Flash --------------------------------
(* The flash memory: Write, WriteDouble, Erase and the tasks in ErasePage.  What
   runs in a critical section is one step; a busy peripheral makes it spin, so
   that the step is due when it is not busy.  A double word is the tuple of its
   bytes.                                                                     *)
EXTENDS Naturals, Sequences, FiniteSets

CONSTANTS Pages,      \* a set of consecutive page numbers
          Tasks,      \* tasks that call ErasePage
          PageSize,   \* bytes of a page
          Lengths,    \* lengths of the data given to Write
          Worn        \* pages that cannot be erased

VARIABLES mem,        \* [page, double word] -> bytes
          busy,       \* SR.BSY: the page being erased, or Nobody
          task,       \* frames of ErasePage; spoiled: its page was written since
          report      \* history: what the last call has reported, until the memory changes

flash == <<mem, busy, task, report>>

Nobody == 0
Ones == 255      \* the byte 0xFF
Unknown == 99    \* a byte behind the data of Write
Old == 7         \* a byte of earlier data
Bytes(b) == [k \in 0..7 |-> b]
Doubles == 0..(PageSize \div 8 - 1)
Cells == Pages \X Doubles
Erased(p) == \A d \in Doubles : mem[<<p, d>>] = Bytes(Ones)

Forget == [op |-> "none", pages |-> {}, at |-> 0, len |-> 0, result |-> TRUE]
Report(op, pages, at, len, result) ==
    report' = [op |-> op, pages |-> pages, at |-> at, len |-> len, result |-> result]

Init == /\ mem = [c \in Cells |-> Bytes(Old)]
        /\ busy = Nobody
        /\ task = [t \in Tasks |-> [pc |-> "out", n |-> Nobody, result |-> TRUE, spoiled |-> FALSE]]
        /\ report = Forget

----------------------------------------------------------------------------
(* Programming.  A double word takes a value if it is erased, or zeros.       *)
Programmed(old, value) == IF old = Bytes(Ones) \/ value = Bytes(0) THEN value ELSE old

\* The bytes of `w`, from the n-th on replaced by ones: w |= ~0u << (n << 3).  The
\* processor shifts by 32 to zero, and so masks nothing.
MaskFrom(w, n) == [k \in 0..3 |-> IF k >= n THEN Ones ELSE w[k]]

MaskLast(w1, w2, len) ==
    IF len > 4 THEN <<w1, MaskFrom(w2, len - 4)>> ELSE <<MaskFrom(w1, len), [k \in 0..3 |-> Ones]>>

\* The k-th double word that Write stores of `len` bytes of data.
Double(k, len) ==
    LET byte(n) == IF n < len THEN n + 1 ELSE Unknown
        w1 == [j \in 0..3 |-> byte(8 * k + j)]
        w2 == [j \in 0..3 |-> byte(8 * k + 4 + j)]
        last == k = (len + 7) \div 8 - 1 /\ len % 8 # 0
        w == IF last THEN MaskLast(w1, w2, len % 8) ELSE <<w1, w2>>
    IN  [j \in 0..7 |-> IF j < 4 THEN w[1][j] ELSE w[2][j - 4]]

Spoils(p) == task' = [t \in Tasks |-> [task[t] EXCEPT !.spoiled = @ \/ (task[t].pc # "out" /\ task[t].n = p)]]

\* The double words are programmed up to the first one that does not read back.
Write(p, d, len) ==
    LET count == (len + 7) \div 8
        new(k) == Programmed(mem[<<p, d + k>>], Double(k, len))
        good(k) == new(k) = Double(k, len)
    IN  /\ busy = Nobody /\ d + count - 1 \in Doubles
        /\ \E n \in 0..count :
             /\ \A k \in 0..(n - 1) : good(k)
             /\ n < count => ~good(n)
             /\ mem' = [c \in Cells |-> IF c[1] = p /\ c[2] \in d..(d + n) /\ c[2] < d + count
                                        THEN new(c[2] - d) ELSE mem[c]]
             /\ Report("Write", {p}, d, len, n = count)
        /\ Spoils(p) /\ UNCHANGED busy

\* An empty Write does nothing; ShredDouble writes zeros.
WriteDouble(p, d) ==
    /\ busy = Nobody
    /\ mem' = [mem EXCEPT ![<<p, d>>] = Programmed(@, Bytes(0))]
    /\ report' = Forget
    /\ Spoils(p) /\ UNCHANGED busy

----------------------------------------------------------------------------
(* Erasing                                                                    *)
AfterErase(m, p) == [c \in Cells |-> IF c[1] = p /\ p \notin Worn THEN Bytes(Ones) ELSE m[c]]

\* The peripheral is done.
EraseEnds ==
    /\ busy # Nobody
    /\ mem' = AfterErase(mem, busy) /\ busy' = Nobody
    /\ report' = Forget
    /\ UNCHANGED task

\* Erase of all pages touched by a range, up to the first that is not all ones.
Erase(p, length) ==
    LET last == (p * PageSize + length - 1) \div PageSize
        good(q) == q \notin Worn \/ Erased(q)
    IN  /\ busy = Nobody /\ p..last \subseteq Pages
        /\ \E n \in p..(last + 1) :
             /\ \A q \in p..(n - 1) : good(q)
             /\ n <= last => ~good(n)
             /\ mem' = [c \in Cells |-> IF c[1] \in p..(n - 1) THEN Bytes(Ones) ELSE mem[c]]
             /\ Report("Erase", p..last, 0, 0, n > last)
        /\ UNCHANGED <<busy, task>>

CallErasePage(t, p) ==
    /\ task[t].pc = "out"
    /\ task' = [task EXCEPT ![t] = [pc |-> "wait", n |-> p, result |-> TRUE, spoiled |-> FALSE]]
    /\ UNCHANGED <<mem, busy, report>>

AwaitIdle(t) ==
    /\ task[t].pc = "wait" /\ busy = Nobody
    /\ task' = [task EXCEPT ![t].pc = "enter"]
    /\ UNCHANGED <<mem, busy, report>>

\* Mutant: what was seen outside the critical section is not checked again.
StillIdleAssumed(b) == TRUE
StillIdle(b) == b = Nobody

\* A busy peripheral ignores the command.
StartErase(t) ==
    /\ task[t].pc = "enter"
    /\ IF StillIdle(busy)
       THEN /\ task' = [task EXCEPT ![t].pc = "erase"]
            /\ busy' = IF busy = Nobody THEN task[t].n ELSE busy
       ELSE task' = [task EXCEPT ![t].pc = "wait"] /\ UNCHANGED busy
    /\ UNCHANGED <<mem, report>>

ReturnErasePage(t) ==
    /\ task[t].pc = "erase" /\ busy = Nobody
    /\ task' = [task EXCEPT ![t].pc = "out", ![t].result = Erased(task[t].n)]
    /\ Report("Erase", {task[t].n}, 0, 0, Erased(task[t].n))
    /\ UNCHANGED <<mem, busy>>

Next == \/ \E p \in Pages, d \in Doubles, len \in Lengths : Write(p, d, len)
        \/ \E p \in Pages, d \in Doubles : WriteDouble(p, d)
        \/ \E p \in Pages, length \in {1, PageSize, PageSize + 1} : Erase(p, length)
        \/ EraseEnds
        \/ \E t \in Tasks, p \in Pages : CallErasePage(t, p)
        \/ \E t \in Tasks : AwaitIdle(t) \/ StartErase(t) \/ ReturnErasePage(t)

Spec == Init /\ [][Next]_flash

----------------------------------------------------------------------------
(* The variables have their types; no unknown byte is ever stored.            *)
TypeOK == /\ \A c \in Cells : \A k \in 0..7 : mem[c][k] \in {Ones, Old} \cup 0..PageSize
          /\ busy \in Pages \cup {Nobody}
          /\ \A t \in Tasks : task[t].pc \in {"out", "wait", "enter", "erase"}

(* What a call reports is so, when it returns and as long as nobody changes the
   memory: a Write has stored its data and left ones behind it or has failed,
   an Erase or ErasePage has left the pages erased or has failed.  ErasePage
   fails only for a page that cannot be erased, or was written meanwhile,
   however the tasks and the other users of the peripheral meet.              *)
FlashExact ==
    /\ report.op = "Write" =>
         (report.result <=> \A p \in report.pages, k \in 0..((report.len + 7) \div 8 - 1), j \in 0..7 :
                                mem[<<p, report.at + k>>][j] = IF 8 * k + j < report.len THEN 8 * k + j + 1 ELSE Ones)
    /\ report.op = "Erase" => (report.result <=> \A p \in report.pages : Erased(p))
    /\ \A t \in Tasks : task[t].result \/ task[t].spoiled \/ task[t].n \in Worn
=============================================================================
