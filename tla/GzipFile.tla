------------------------------ MODULE GzipFile ------------------------------
(***************************************************************************)
(* gzip_decompress_file (gzip/gzip_decode.c): the header, the stream, the  *)
(* trailer, and what becomes of the output file.  The CRC of some bytes is *)
(* those bytes, so that two contents never share one.                      *)
(***************************************************************************)
EXTENDS GzipInflate

CONSTANT SizeModulus    \* the trailer holds the size modulo this: 2^32

ASSUME ModulusAssumption == SizeModulus \in Nat \ {0}

VARIABLES
    success,    \* success
    result      \* how the call ended

vars == <<pc, readVars, blockVars, sinkVars, plain, success, result>>

Absent      == [there |-> FALSE, items |-> <<>>]
Full(items) == [there |-> TRUE, items |-> items]

\* There may be an older output file.
Init ==
    /\ pc = "header"
    /\ InflateInit
    /\ disk \in {Absent, Full(<<0>>)}
    /\ success = FALSE
    /\ result = "none"

Return(how) == pc' = "done" /\ result' = how

\* The two paths are spelled alike, the input cannot be opened, or
\* read_gzip_header rejects its first bytes: a wrong magic number, method or
\* flag, a field that does not end, or a CRC16 that does not match.  Nothing
\* else depends on what the fields hold.
HeaderRejected ==
    /\ pc = "header"
    /\ Return("refused")
    /\ UNCHANGED <<readVars, blockVars, sinkVars, plain, success>>

HeaderAccepted ==
    /\ pc = "header"
    /\ pc' = "open"
    /\ UNCHANGED <<readVars, blockVars, sinkVars, plain, success, result>>

\* The first progress report may cancel, and fopen may fail.
OpenFails ==
    /\ pc = "open"
    /\ Return("refused")
    /\ UNCHANGED <<readVars, blockVars, sinkVars, plain, success>>

\* fopen empties the output; without memory for the decoder it is removed.
OpenOutput ==
    /\ pc = "open"
    /\ disk' = Full(<<>>)
    /\ pc' \in {"final", "noMemory"}
    /\ UNCHANGED <<readVars, blockVars, window, output_size, buffer, crc,
                   plain, success, result>>

\* Mutant: the early return leaves the empty file behind.
OutOfMemoryKeepsFile ==
    /\ pc = "noMemory"
    /\ Return("failed")
    /\ UNCHANGED <<readVars, blockVars, sinkVars, plain, success>>

OutOfMemory ==
    /\ pc = "noMemory"
    /\ disk' = Absent
    /\ Return("failed")
    /\ UNCHANGED <<readVars, blockVars, window, output_size, buffer, crc,
                   plain, success>>

LastFlush ==
    /\ pc = "flush"
    /\ output_flush(buffer, "trailer")
    /\ UNCHANGED <<readVars, blockVars, window, output_size, plain, success,
                   result>>

\* Two fields of four bytes, read from the file and not from the bit reader;
\* the file ends before them, or they tell another content or another size.
ReadTrailer ==
    /\ pc = "trailer"
    /\ \/ \E expected_crc \in {plain, Append(plain, 0)},
              expected_size \in 0 .. SizeModulus - 1 :
            IF crc = expected_crc /\ output_size % SizeModulus = expected_size
            THEN pc' = "trailing" ELSE Fail
       \/ Fail
    /\ UNCHANGED <<readVars, blockVars, sinkVars, plain, success, result>>

\* Nothing may follow; the output is flushed, and the callback may cancel.
Finish ==
    /\ pc = "trailing"
    /\ Fail
    /\ success' \in BOOLEAN
    /\ UNCHANGED <<readVars, blockVars, sinkVars, plain, result>>

\* Either fclose may fail; without success the output is removed.
CloseFiles ==
    /\ pc = "close"
    /\ \E closed \in BOOLEAN :
         IF success /\ closed
         THEN Return("ok") /\ UNCHANGED <<disk, success>>
         ELSE /\ success' = FALSE
              /\ disk' = Absent
              /\ Return("failed")
    /\ UNCHANGED <<readVars, blockVars, window, output_size, buffer, crc, plain>>

Step ==
    \/ HeaderRejected \/ HeaderAccepted \/ OpenFails \/ OpenOutput \/ OutOfMemory
    \/ Inflate /\ UNCHANGED <<success, result>>
    \/ LastFlush \/ ReadTrailer \/ Finish \/ CloseFiles

Terminated == pc = "done" /\ UNCHANGED vars

Next == Step \/ Terminated

Spec == Init /\ [][Next]_vars /\ WF_vars(Step)

----------------------------------------------------------------------------

Running == pc \notin {"header", "open", "done"}

\* The bytes that output_emit was given.
Emitted == disk.items \o buffer

\* A table gets a tree exactly when its codes fit into the code space and
\* its nodes into the array, and then each code starts where those before it,
\* by length and then by symbol, end: the code of RFC 1951, in which no code
\* begins another (gzip_decode.c:382-474).  A constant fact, evaluated before
\* the call.
BuildMatchesReference == pc = "header" => AllTablesMatch

\* The ring holds the end of what was emitted, and what was emitted is the
\* beginning of what the stream says: a copy that overlaps itself, crosses the
\* end of the ring or reaches back its full size reads the right bytes, also
\* when the buffer is flushed in the middle of it (gzip_decode.c:503-559).
WindowHoldsTheEnd ==
    Running /\ pc # "noMemory" =>
        /\ Len(Emitted) = output_size
        /\ Emitted = SubSeq(plain, 1, output_size)
        /\ pc \notin {"copy", "close"} => output_size = Len(plain)
        /\ \A k \in 1 .. OutputWindow : k <= output_size =>
             window[(output_size - k) % OutputWindow] =
                 Emitted[output_size - k + 1]

\* A byte is taken from the file only when one of its bits is needed, so the
\* bit reader holds less than a byte more than the read that comes next, unless
\* the file ended inside one, and the trailer, which is read past it, starts
\* at the next byte (gzip_decode.c:323-355).
ReaderStaysBehind ==
    /\ used + bit_count = ByteBits * bytes_read
    /\ pc \notin {"close", "done"} => bit_count < Width + ByteBits
    /\ bits < pow2[bit_count]
    /\ pc \in {"flush", "trailer", "trailing"} => bit_count = 0 /\ bits = 0

Caller == INSTANCE FileCall
            WITH running <- Running, output <- disk, owed <- plain,
                 ended <- result

\* All or nothing: success leaves exactly what the stream says, a failure no
\* file, and a rejected header the file that was there (gzip_decode.c:850-987).
GzipAllOrNothing == Caller!Spec

\* Every call returns.
GzipReturns == <>(pc = "done")

====
