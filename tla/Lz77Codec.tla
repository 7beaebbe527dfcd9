----------------------------- MODULE Lz77Codec -----------------------------
(***************************************************************************)
(* A block goes through lz77_compress and then, with the capacity that     *)
(* format.c gives it (the size of the block), through lz77_decompress; or  *)
(* lz77_decompress is called by itself, on any stream.                     *)
(***************************************************************************)
EXTENDS Lz77Encoder, Lz77Decoder

CONSTANTS
    MaxStream,      \* bound: bytes of a stream that was not encoded here
    Capacities      \* the capacities tried with such a stream

ASSUME StreamAssumption == MaxStream \in Nat /\ Capacities \subseteq Nat

vars == <<encVars, decVars>>

Streams == UNION {[1 .. n -> Byte] : n \in 0 .. MaxStream}

\* The decoder runs although no encoder did.
Foreign == dpc # "idle" /\ epc # "done"

\* lz77_decompress is called on a stream from elsewhere; there is no block then.
ForeignStream ==
    /\ input = <<>>
    /\ dpc = "token"
    /\ stream \in Streams
    /\ capacity \in Capacities
    /\ ipos = 0 /\ out = <<>> /\ token = 0
    /\ length = 0 /\ distance = 0 /\ copied = 0

Init == EncInit /\ (DecIdle \/ ForeignStream)

EncodeStep == dpc = "idle" /\ Encode /\ UNCHANGED decVars

Handover ==
    /\ epc = "done"
    /\ StartDecoding(encoded, Size)
    /\ UNCHANGED encVars

DecodeStep == Decode /\ UNCHANGED encVars

Terminated == dpc \in {"ok", "fail"} /\ UNCHANGED vars

Step == EncodeStep \/ Handover \/ DecodeStep

Next == Step \/ Terminated

Spec == Init /\ [][Next]_vars /\ WF_vars(Step)

----------------------------------------------------------------------------

\* What the decoder has produced is always a prefix of the block, it rejects
\* nothing the encoder wrote, and when it succeeds the block is whole.
RoundTrip ==
    ~Foreign =>
        /\ dpc # "fail"
        /\ Len(out) <= Size
        /\ \A p \in 1 .. Len(out) : out[p] = input[p]
        /\ dpc = "ok" => Len(out) = Size

\* Both loops end: every token advances the position, every chain is finite,
\* and a stream from elsewhere cannot hold the decoder up.
CodecEnds == <>(dpc \in {"ok", "fail"})

\* The decoder stands at a mark, or inside the match that follows one.
DecoderInv ==
    /\ dpc # "fail"
    /\ dpc # "idle" =>
         /\ epc = "done"
         /\ stream = encoded
         /\ capacity = Size
         /\ \A p \in 1 .. Len(out) : out[p] = input[p]
    /\ dpc = "idle" => token = 0 /\ ipos = 0 /\ out = <<>>
    /\ dpc = "token" =>
         /\ token + 1 <= Len(marks)
         /\ ipos = marks[token + 1].offset
         /\ Len(out) = marks[token + 1].at
    /\ dpc = "copy" =>
         /\ token + 2 <= Len(marks)
         /\ MatchAt(token + 1)
         /\ length = marks[token + 2].at - marks[token + 1].at
         /\ distance = Value(encoded[marks[token + 1].offset + 4],
                              encoded[marks[token + 1].offset + 5])
         /\ ipos = marks[token + 2].offset
         /\ copied <= length
         /\ Len(out) = marks[token + 1].at + copied
    /\ dpc = "ok" => Len(out) = Size

\* The inductive invariant behind RoundTrip and InBounds.
IInv ==
    /\ EncTypeOK /\ DecTypeOK
    /\ PositionInv /\ ChainInv /\ BestIsMatch /\ MarksInv
    /\ InBounds
    /\ Foreign \/ DecoderInv

====
