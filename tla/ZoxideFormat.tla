----------------------------- MODULE ZoxideFormat -----------------------------
(* The bytes of db.zo: parse and encode.  A number of the format, whatever its *)
(* width, is one byte here; a rank is its bits.                                *)
EXTENDS Integers, SequencesExt

CONSTANTS
    UsizeMax,   \* the largest offset of the machine
    NotText     \* a byte no UTF-8 text has

ASSUME FormatAssumption == UsizeMax \in Nat /\ NotText \in Nat

SupportedVersion == 3

\* A cursor, the rows read so far, and why it stopped.
Start == [at |-> 0, rows |-> <<>>, error |-> "none"]

Stop(c, error) == [c EXCEPT !.error = error]

\* (Mistaken variant: end < buf.len().)
FitsBefore(buf, at, n) == at + n <= UsizeMax /\ at + n < Len(buf)

\* Cursor::take: checked_add, then the end of the buffer.
Fits(buf, at, n) == at + n <= UsizeMax /\ at + n <= Len(buf)

\* One entry: the length and the path, then rank and last_accessed.
ReadRow(buf, c) ==
    LET len  == buf[c.at + 1]
        path == SubSeq(buf, c.at + 2, c.at + 1 + len)
        end  == c.at + 1 + len
    IN  IF c.error # "none"                      THEN c
        ELSE IF ~Fits(buf, c.at, 1)              THEN Stop(c, "Truncated")
        ELSE IF ~Fits(buf, c.at + 1, len)        THEN Stop(c, "Truncated")
        ELSE IF NotText \in ToSet(path)          THEN Stop(c, "NotUtf8")
        ELSE IF ~Fits(buf, end, 1) \/ ~Fits(buf, end + 1, 1) THEN Stop(c, "Truncated")
        ELSE [at |-> end + 2, error |-> "none",
              rows |-> Append(c.rows, [path |-> path, rank |-> buf[end + 1],
                                       last_accessed |-> buf[end + 2]])]

\* (Mistaken variant: bytes after the last entry are let pass.)
FinishAnywhere(buf, c) == c

\* c.at != buf.len()
Finish(buf, c) == IF c.error = "none" /\ c.at # Len(buf) THEN Stop(c, "Trailing") ELSE c

Parse(buf) ==
    IF buf = <<>>                         THEN Start
    ELSE IF ~Fits(buf, 0, 1)              THEN Stop(Start, "Truncated")
    ELSE IF buf[1] # SupportedVersion     THEN Stop(Start, "Version")
    ELSE IF ~Fits(buf, 1, 1)              THEN Stop(Start, "Truncated")
    ELSE Finish(buf, FoldLeft(LAMBDA c, n : ReadRow(buf, c), [Start EXCEPT !.at = 2],
                              [n \in 1..buf[2] |-> n]))

Encode(rows) ==
    FoldLeft(LAMBDA bytes, d : bytes \o <<Len(d.path)>> \o d.path \o <<d.rank, d.last_accessed>>,
             <<SupportedVersion, Len(rows)>>, rows)
=============================================================================
