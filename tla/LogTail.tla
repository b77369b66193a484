------------------------------ MODULE LogTail ------------------------------
(***************************************************************************)
(* The log viewer: Tail (gateway/logs/tail.go) follows a file and writes   *)
(* what it reads to the line filter of the connection (gateway/logs.go).   *)
(*                                                                         *)
(* A byte of a log is numbered by the order in which it was written, and   *)
(* ends a line or not.  The path may be given a new file, and the file     *)
(* that Tail has open be cut to nothing, at any moment.                    *)
(***************************************************************************)
EXTENDS Naturals, Sequences, FiniteSets, SequencesExt, FiniteSetsExt

CONSTANTS
    MaxBytes,       \* bound: bytes written to the log
    MaxCuts,        \* bound: truncations and rotations
    Backlog,        \* cfg.BacklogBytes
    ReadSize,       \* of the read buffer
    Ahead           \* bytes the reader of the first line reads ahead

LogTailAssumption == {MaxBytes, MaxCuts} \subseteq Nat /\ {Backlog, ReadSize, Ahead} \subseteq Nat \ {0}

VARIABLES
    file,           \* the open file: a sequence of bytes
    bytes, cuts,
    rotated,        \* the path names another file by now
    missed,         \* the file was cut since it was opened, and Tail has not noticed
    grep,           \* there is a filter
    pc, start,
    lastPos,        \* how far the file has been read
    from,           \* where that began, and whether it had to be within a line
    within,
    out,            \* what the filter was given since then
    held, sent,     \* of that: its incomplete line, the lines sent
    message         \* the client has sent a message

vars == <<file, bytes, cuts, rotated, missed, grep, pc, start, lastPos, from, within, out, held,
          sent, message>>

Byte == [id : 1..MaxBytes, nl : BOOLEAN]
TypeOK ==
    /\ file \in Seq(Byte) /\ Len(file) <= MaxBytes /\ bytes \in 0..MaxBytes /\ cuts \in 0..MaxCuts
    /\ {rotated, missed, grep, within, message} \subseteq BOOLEAN
    /\ pc \in {"stat", "seek", "read", "wait", "ended"}
    /\ {start, lastPos, from} \subseteq 0..MaxBytes
    /\ out \in Seq(Byte) /\ held \in Seq(Byte) /\ \A k \in DOMAIN sent : sent[k] \in Seq(Byte)

Init ==
    /\ \E n \in 0..MaxBytes : /\ bytes = n /\ file \in [1..n -> Byte]
                              /\ \A k \in 1..n : file[k].id = k
    /\ cuts = 0 /\ rotated = FALSE /\ missed = FALSE /\ grep \in BOOLEAN
    /\ pc = "stat" /\ start = 0 /\ lastPos = 0 /\ from = 0 /\ within = FALSE
    /\ out = <<>> /\ held = <<>> /\ sent = <<>> /\ message = FALSE

\* ------------------------------------------------------------- the log
Reader == <<grep, pc, start, lastPos, from, within, out, held, sent, message>>
LogWrites(nl) ==
    /\ ~rotated /\ bytes < MaxBytes
    /\ bytes' = bytes + 1 /\ file' = Append(file, [id |-> bytes', nl |-> nl])
    /\ UNCHANGED <<Reader, cuts, rotated, missed>>
Truncate ==
    /\ ~rotated /\ cuts < MaxCuts /\ file # <<>>
    /\ cuts' = cuts + 1 /\ file' = <<>> /\ missed' = (pc # "stat")
    /\ UNCHANGED <<Reader, bytes, rotated>>
Rotate ==
    /\ ~rotated /\ cuts < MaxCuts /\ pc # "stat"
    /\ cuts' = cuts + 1 /\ rotated' = TRUE
    /\ UNCHANGED <<Reader, file, bytes, missed>>

\* -------------------------------------------------------- the line filter
Ends(s) == {k \in DOMAIN s : s[k].nl}
Complete(s) == IF Ends(s) = {} THEN 0 ELSE Max(Ends(s))
Lines(s) ==
    LET ends == SetToSortSeq(Ends(s), <) IN
    [k \in DOMAIN ends |-> SubSeq(s, IF k = 1 THEN 1 ELSE ends[k - 1] + 1, ends[k])]
Matches(line) == ~grep \/ line[1].id % 2 = 1
Filter(s) == /\ held' = SubSeq(s, Complete(s) + 1, Len(s))
             /\ sent' = sent \o SelectSeq(Lines(s), Matches)

\* ----------------------------------------------------------------- Tail
World == <<file, bytes, cuts, rotated, grep>>
Stat ==
    /\ pc = "stat" /\ pc' = "seek"
    /\ start' = IF Len(file) > Backlog THEN Len(file) - Backlog ELSE 0
    /\ UNCHANGED <<World, missed, lastPos, from, within, out, held, sent, message>>

\* The rest of the line at start is skipped.  The reader that looks for its end reads
\* ahead, what it has left is given back.
FirstEnd == Min({k \in Ends(file) : k > start})
ReadTo == CHOOSE k \in FirstEnd..FirstEnd + Ahead - 1 : (k - start) % Ahead = 0
AlignedAhead == Min({ReadTo, Len(file)})
Aligned == FirstEnd
Seek ==
    /\ pc = "seek" /\ pc' = "read"
    /\ LET found == start > 0 /\ \E k \in Ends(file) : k > start IN
         /\ lastPos' = IF found THEN Aligned ELSE start
         /\ within' = (start > 0 /\ ~found)
    /\ from' = lastPos'
    /\ UNCHANGED <<World, missed, start, out, held, sent, message>>

Read ==
    /\ pc = "read" /\ lastPos < Len(file)
    /\ LET chunk == SubSeq(file, lastPos + 1, Min({lastPos + ReadSize, Len(file)})) IN
         /\ out' = out \o chunk /\ lastPos' = lastPos + Len(chunk)
         /\ Filter(held \o chunk)
    /\ UNCHANGED <<World, missed, pc, start, from, within, message>>
ReadEOF ==
    /\ pc = "read" /\ lastPos >= Len(file) /\ pc' = "wait"
    /\ UNCHANGED <<World, missed, start, lastPos, from, within, out, held, sent, message>>
\* The notice that is written ends the line held.
Rewind ==
    /\ pc = "wait" /\ Len(file) < lastPos /\ pc' = "read"
    /\ lastPos' = 0 /\ from' = 0 /\ within' = FALSE /\ missed' = FALSE
    /\ out' = <<>> /\ held' = <<>> /\ sent' = <<>>
    /\ UNCHANGED <<World, start, message>>
Poll ==
    /\ pc = "wait" /\ Len(file) >= lastPos /\ pc' = "read"
    /\ UNCHANGED <<World, missed, start, lastPos, from, within, out, held, sent, message>>

\* The connection is closed, or a line cannot be sent.
Cancel ==
    /\ pc \in {"read", "wait"} /\ pc' = "ended"
    /\ UNCHANGED <<World, missed, start, lastPos, from, within, out, held, sent, message>>
ReadMessage ==
    /\ ~message /\ message' = TRUE
    /\ UNCHANGED <<World, missed, pc, start, lastPos, from, within, out, held, sent>>

Next == \/ (\E nl \in BOOLEAN : LogWrites(nl)) \/ Truncate \/ Rotate
        \/ Stat \/ Seek \/ Read \/ ReadEOF \/ Rewind \/ Poll \/ Cancel \/ ReadMessage

Spec == Init /\ [][Next]_vars

\* What is shown is a stretch of the log without a gap, from the beginning of a line
\* when there is one in the backlog, and of that stretch every complete line that
\* matches, whatever the reads it came in (tail.go:136-171, logs.go:132-168), as long
\* as no truncation has gone unnoticed.
TailExact ==
    ~missed => /\ out = SubSeq(file, from + 1, lastPos)
               /\ pc \in {"read", "wait"} => (from = 0 \/ within \/ file[from].nl)
               /\ held = SubSeq(out, Complete(out) + 1, Len(out))
               /\ sent = SelectSeq(Lines(out), Matches)

\* Refuted: a rotation of the log is detected (tail.go:99), and a truncation.
RotationSeen == [][pc = "wait" /\ pc' = "read" /\ rotated => lastPos' = 0]_vars
TruncationSeen == [][pc = "wait" /\ pc' = "read" /\ missed => lastPos' = 0]_vars

\* Refuted: a message of the client cancels the tail (logs.go:77-78, 109).
MessageCancels == [][message => UNCHANGED out]_vars
=============================================================================
