---------------------------- MODULE MCUsbControl ----------------------------
(* Values for model checking.                                                *)
EXTENDS UsbControl

Plain == [dir |-> "in", len |-> 4, sent |-> 0, supported |-> TRUE, answer |-> 1,
          op |-> "none", value |-> 0]

SetTo(op, value) == [Plain EXCEPT !.dir = "out", !.len = 0, !.answer = 0, !.op = op, !.value = value]

\* Data of one packet, of two, cut to one; requests without data; one too long and one
\* that nobody supports.
Usual == {Plain, [Plain EXCEPT !.answer = 3], [Plain EXCEPT !.answer = 3, !.len = 2],
          SetTo("address", 1), SetTo("configure", 1), SetTo("configure", 0),
          [Plain EXCEPT !.dir = "out", !.len = 3, !.supported = FALSE],
          [Plain EXCEPT !.supported = FALSE]}

\* Requests of every kind; the host leaves out the data of one.
Few == {Plain, [Plain EXCEPT !.answer = 3], SetTo("address", 1), [Plain EXCEPT !.supported = FALSE]}

\* One that is answered with two packets and one that nobody supports.
Two == {[Plain EXCEPT !.answer = 3], [Plain EXCEPT !.supported = FALSE]}

\* The host sends data, or leaves it out.
SendsData   == {[Plain EXCEPT !.dir = "out", !.len = 2, !.sent = 2]}
LeavesItOut == {[Plain EXCEPT !.dir = "out", !.len = 2]}

\* The last packet of the answer is a full one.
FullPacket == {[Plain EXCEPT !.answer = 2]}

\* The host reads no bytes at all.
EmptyRead == {[Plain EXCEPT !.len = 0, !.answer = 0]}
=============================================================================
