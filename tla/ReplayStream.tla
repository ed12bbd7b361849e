---------------------------- MODULE ReplayStream ----------------------------
(***************************************************************************)
(* Reading a stored live chat replay: batches of lines sent to the page    *)
(* over a channel, a gate on how many reads run and wait at once, and the  *)
(* cancel of a read the page no longer wants, which may arrive before the  *)
(* read starts or after it ended (stream_live_chat_lines and the read gate *)
(* of services/live_chat_storage.rs, commands/live_chat.rs).               *)
(***************************************************************************)
EXTENDS Naturals, FiniteSets, Sequences, SequencesExt

CONSTANTS
    Streams,                \* the reads; the page makes a fresh id for each
    Files,                  \* stored replays: sequences of pieces, see Bytes
    MAX_CONCURRENT_LIVE_CHAT_READS,
    MAX_LIVE_CHAT_READS_IN_FLIGHT,
    LIVE_CHAT_STREAM_BATCH_LINES,
    MAX_LIVE_CHAT_DECOMPRESSED_BYTES,
    MAX_ABANDONED_STREAMS

VARIABLES
    stream,     \* Streams -> [pc, file, at, got]
    abandoned,  \* abandoned_streams(): the newest ids of a cancel, oldest first
    cancelled   \* history: the reads the page cancelled

vars == <<stream, abandoned, cancelled>>

Idle == [pc |-> "idle", file |-> <<>>, at |-> 1, got |-> <<>>]

Init ==
    /\ stream = [s \in Streams |-> Idle]
    /\ abandoned = <<>>
    /\ cancelled = {}

(***************************************************************************)
(* The reader. A piece of a file is a line, a line past the ceiling of one *)
(* line, or the place where the archive can no longer be read.             *)
(***************************************************************************)

\* the bytes a piece takes, in lines of ordinary length
Bytes(piece) == IF piece = "long" THEN 2 ELSE 1

\* a line past its ceiling is dropped, and the next one is read from its own beginning
read_capped_line(piece) == IF piece = "long" THEN <<>> ELSE <<piece>>

\* what the pieces from `a` to `b` bring
Lines(file, a, b) == FoldLeft(LAMBDA x, piece : x \o read_capped_line(piece), <<>>, SubSeq(file, a, b))
Took(file, b) == FoldLeft(LAMBDA n, piece : n + Bytes(piece), 0, SubSeq(file, 1, b))

\* the read cannot go past piece i: damage, or more than the ceiling of the whole
Stops(file, i) == file[i] = "damage" \/ Took(file, i) > MAX_LIVE_CHAT_DECOMPRESSED_BYTES

\* where the next batch ends: full, or the end of the file, or not at all
stream_reader_lines(file, from) ==
    LET full == {i \in from .. Len(file) : /\ \A j \in from .. i : ~Stops(file, j)
                                           /\ Len(Lines(file, from, i)) = LIVE_CHAT_STREAM_BATCH_LINES}
    IN IF full # {} THEN [to |-> CHOOSE i \in full : \A j \in full : i <= j, ok |-> TRUE]
       ELSE [to |-> Len(file), ok |-> \A j \in from .. Len(file) : ~Stops(file, j)]

(***************************************************************************)
(* The command and its cancel.                                             *)
(***************************************************************************)

At(pc) == {s \in Streams : stream[s].pc = pc}

\* a read over the ceiling of reads in flight is refused, and the page may ask again later
acquire_read_permit(s) ==
    /\ stream[s].pc = "idle"
    /\ \E file \in Files :
          stream' = [stream EXCEPT ![s] = [Idle EXCEPT !.file = file, !.pc =
             IF Cardinality(At("queued") \cup At("read")) >= MAX_LIVE_CHAT_READS_IN_FLIGHT
             THEN "refused" ELSE "queued"]]
    /\ UNCHANGED <<abandoned, cancelled>>

Admitted(s) ==
    /\ stream[s].pc = "queued"
    /\ Cardinality(At("read")) < MAX_CONCURRENT_LIVE_CHAT_READS
    /\ stream' = [stream EXCEPT ![s].pc = "read"]
    /\ UNCHANGED <<abandoned, cancelled>>

\* the oldest id falls off a full list
mark_stream_abandoned(s) ==
    Append(IF Len(abandoned) >= MAX_ABANDONED_STREAMS THEN Tail(abandoned) ELSE abandoned, s)

cancel_live_chat_stream(s) ==
    /\ s \notin cancelled
    /\ abandoned' = mark_stream_abandoned(s)
    /\ cancelled' = cancelled \cup {s}
    /\ UNCHANGED stream

is_stream_abandoned(s) == s \in ToSet(abandoned)

\* Mutant: a stream that stopped takes the oldest cancel, whoever it was for.
OldestTaken(s) == abandoned # <<>>

take_stream_abandoned(s) == is_stream_abandoned(s)

Left(s) == LET other(x) == x # s IN SelectSeq(abandoned, other)

\* the read is over: silently when it was cancelled, otherwise as it went
StreamEnds(s, pc, got) ==
    /\ stream' = [stream EXCEPT ![s].got = got,
                                ![s].pc = IF take_stream_abandoned(s) THEN "silent" ELSE pc]
    /\ abandoned' = Left(s)

\* one batch is read and, unless the page has gone, sent
stream_live_chat_file(s) ==
    LET S == stream[s]
        batch == stream_reader_lines(S.file, S.at)
        lines == Lines(S.file, S.at, batch.to)
    IN /\ S.pc = "read"
       /\ IF S.at > Len(S.file) THEN StreamEnds(s, "done", S.got)
          ELSE IF ~batch.ok \/ (lines # <<>> /\ is_stream_abandoned(s)) THEN StreamEnds(s, "failed", S.got)
          ELSE /\ stream' = [stream EXCEPT ![s].at = batch.to + 1, ![s].got = @ \o lines]
               /\ UNCHANGED abandoned
       /\ UNCHANGED cancelled

Next == \E s \in Streams :
    acquire_read_permit(s) \/ Admitted(s) \/ cancel_live_chat_stream(s) \/ stream_live_chat_file(s)

Spec == Init /\ [][Next]_vars

(***************************************************************************)
(* Properties.                                                             *)
(***************************************************************************)

\* A read the page is told is done brought every line the file keeps, once, in order; one that ends
\* without a word was cancelled; one that fails met damage or the ceiling, or was cancelled.
StreamsTell ==
    \A s \in Streams :
       LET file == stream[s].file
           stops == \E i \in DOMAIN file : Stops(file, i)
       IN /\ stream[s].pc = "done" => ~stops /\ stream[s].got = Lines(file, 1, Len(file))
          /\ stream[s].pc = "silent" => s \in cancelled
          /\ stream[s].pc = "failed" => stops \/ s \in cancelled
=============================================================================
