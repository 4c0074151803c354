------------------------------ MODULE DohReadLoop ------------------------------
(***************************************************************************)
(* The loop of process_doh_request that reads an answer into the buffer    *)
(* and writes it to /tmp/snmp/tempxml (c/https/do_doh_https_request.c,     *)
(* lines 2438-2514).                                                       *)
(*                                                                         *)
(* A message is a header, the XML declaration in the two symbols "<" and   *)
(* "?xml", and a body. The buffer and the file hold positions of the       *)
(* message, so that a byte is told from another of the same kind; 0 is the *)
(* NUL the buffer is cleared to.                                           *)
(***************************************************************************)
EXTENDS Integers, Sequences, FiniteSetsExt, SequencesExt

CONSTANTS
    MaxHeader,   \* bound on the bytes before the declaration
    MaxBody,     \* bound on the bytes after it
    MaxRecord,   \* the most SSL_read returns at once
    BufferSize   \* http_response_size

\* A TLS record is 16 KB, the buffer 100000 bytes: a read never fills it.
ASSUME BufferAssumption ==
    /\ {MaxHeader, MaxBody, MaxRecord, BufferSize} \subseteq Nat
    /\ 0 < MaxRecord /\ MaxRecord < BufferSize

VARIABLES
    message,   \* what the server sends
    sent,      \* how much of it has arrived
    buffer,    \* http_response
    received,  \* received_bytes
    file,      \* what is in the file
    chunks,    \* history: the lengths SSL_read has returned
    closed,    \* history: has SSL_read returned 0?
    pc         \* "read", "done", or "failed" after an error

vars == <<message, sent, buffer, received, file, chunks, closed, pc>>

NUL == 0
Declaration == <<"<", "?xml">>
\* A newline stands for the bytes isprint rejects.
HeaderBytes == {"h", "\n"}
BodyBytes == {"x", "<", "\n"}

Messages ==
    {head \o Declaration \o body : head \in BoundedSeq(HeaderBytes, MaxHeader),
                                   body \in BoundedSeq(BodyBytes, MaxBody)}

Printable(p) == p # NUL /\ message[p] # "\n"

\* The loop that writes those of the bytes that isprint takes.
Filtered(bytes) ==
    LET written[i \in 0..Len(bytes)] ==
            IF i = 0 THEN <<>>
            ELSE IF Printable(bytes[i]) THEN Append(written[i - 1], bytes[i])
            ELSE written[i - 1]
    IN  written[Len(bytes)]

Init ==
    /\ message \in Messages
    /\ sent = 0
    /\ buffer = [k \in 1..BufferSize |-> NUL]
    /\ received = BufferSize
    /\ file = <<>>
    /\ chunks = <<>>
    /\ closed = FALSE
    /\ pc = "read"

-----------------------------------------------------------------------------
\* SSL_read: n more bytes at the start of the buffer, the rest as it was.
BufferAfter(n) ==
    [k \in 1..BufferSize |-> IF k <= n THEN sent + k ELSE buffer[k]]

\* strstr(http_response, "<?xml"): where the declarations are in the string.
Found(b) ==
    {k \in 1..(BufferSize - 1) :
        /\ \A j \in 1..(k + 1) : b[j] # NUL
        /\ <<message[b[k]], message[b[k + 1]]>> = Declaration}

\* Where writing starts: at the declaration, or at the start of the buffer.
StartOfText(b) == IF Found(b) = {} THEN 1 ELSE Min(Found(b))

\* What a read of n bytes is left with once the text before the declaration is
\* taken off: none, or less than none.
\* (LeftOfRead, LeftButOne and GoesOnAtEnd are variants with a bug; each breaks a
\* property of the run.)
LeftOfRead(n, b) == n
LeftButOne(n, b) == n - StartOfText(b)
LeftToWrite(n, b) == n - (StartOfText(b) - 1)

Written(n, b) ==
    Filtered(SubSeq(b, StartOfText(b), StartOfText(b) + LeftToWrite(n, b) - 1))

GoesOnAtEnd(n) == n >= 0
GoesOn(n) == n > 0

ReadChunk(n) ==
    LET b == BufferAfter(n)
    IN  /\ pc = "read"
        /\ buffer' = b
        /\ sent' = sent + n
        /\ chunks' = IF n > 0 THEN Append(chunks, n) ELSE chunks
        /\ closed' = (n = 0)
        /\ received' = LeftToWrite(n, b)
        /\ file' = file \o Written(n, b)
        /\ pc' = IF GoesOn(received') THEN "read" ELSE "done"
        /\ UNCHANGED message

\* Some of what is still to come.
Receive == \E n \in 1..Min({MaxRecord, Len(message) - sent}) : ReadChunk(n)

\* The server has sent everything and closed, or closed before that.
Closed == ReadChunk(0)

ReadError ==
    /\ pc = "read"
    /\ pc' = "failed"
    /\ received' = -1
    /\ UNCHANGED <<message, sent, buffer, file, chunks, closed>>

Next == Receive \/ Closed \/ ReadError

Spec == Init /\ [][Next]_vars

\* The peer goes on sending, or closes.
FairSpec == Spec /\ WF_vars(Receive \/ Closed)

-----------------------------------------------------------------------------
(* Properties.                                                             *)

HeaderLength ==
    (CHOOSE k \in 1..(Len(message) - 1) :
         SubSeq(message, k, k + 1) = Declaration) - 1

Entire == Filtered([k \in 1..(Len(message) - HeaderLength) |-> HeaderLength + k])

DeclarationInFirstRead == Len(chunks) > 0 /\ chunks[1] >= HeaderLength + 2

\* Every variable stays in its range.
TypeOK ==
    /\ message \in Messages
    /\ sent \in 0..Len(message)
    /\ buffer \in [1..BufferSize -> 0..Len(message)]
    /\ received \in -BufferSize..BufferSize
    /\ file \in Seq(1..Len(message))
    /\ chunks \in Seq(1..MaxRecord)
    /\ closed \in BOOLEAN
    /\ pc \in {"read", "done", "failed"}
    /\ pc = "read" => received > 0

\* Whatever the buffer still holds from earlier reads, a byte goes to the file
\* once, after the bytes that came before it, and only if it has arrived.
WrittenInOrder ==
    /\ \A i, j \in DOMAIN file : i < j => file[i] < file[j]
    /\ \A i \in DOMAIN file : file[i] <= sent

\* An answer whose declaration comes with the first read leaves nothing of its
\* header in the file.
HeaderSkipped ==
    DeclarationInFirstRead => \A i \in DOMAIN file : file[i] > HeaderLength

\* Whatever earlier reads have left in the buffer, the file holds bytes of the
\* message in order and once each, and none of its header if it can be told.
FileIsInOrder == TypeOK /\ WrittenInOrder /\ HeaderSkipped

\* Such an answer is written whole, and the loop ends at the server's close,
\* when each later read brings more than the header and the declaration: it
\* then covers the declaration that the first read left in the buffer.
LongReadsAreEntire ==
    /\ pc = "done"
    /\ DeclarationInFirstRead
    /\ \A i \in 2..Len(chunks) : chunks[i] >= HeaderLength + 2
    => closed /\ (sent = Len(message) => file = Entire)

\* The loop ends, also when what is left to write is negative.
LoopEnds == <>(pc # "read")

=============================================================================
