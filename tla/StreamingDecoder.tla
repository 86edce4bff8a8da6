--------------------------- MODULE StreamingDecoder ---------------------------
(***************************************************************************)
(* The decoder of one decoded stream (core/response/streaming): content     *)
(* codings are undone by a chain of layers, one slot of decoded bytes in    *)
(* front of each, and every step runs at most one codec once.  The reads of *)
(* streams/state/decoded.rs drive it; what races with them is in            *)
(* StreamState.  Bytes are counted, not looked at.  The codecs (flate2,     *)
(* brotli) are external: each may make any number of bytes up to Expand of  *)
(* one byte, may find its end anywhere and may fail anywhere.               *)
(***************************************************************************)
EXTENDS Integers, Sequences, FiniteSets, FiniteSetsExt

CONSTANTS
  MaxLayers,   \* MAX_LAYERS
  InputSize,   \* INPUT_SIZE
  OutputSize,  \* OUTPUT_SIZE
  Limits,      \* values of max_decoded_bytes, NoLimit for None
  NoLimit,
  MaxItems,    \* bound: items of the content-encoding headers
  MaxBody,     \* bound: encoded bytes
  Expand       \* bound: bytes a codec makes of one byte

ASSUME DecoderAssumption ==
  /\ MaxLayers \in Nat /\ InputSize \in Nat \ {0} /\ OutputSize \in Nat \ {0}
  /\ Limits \subseteq Nat \cup {NoLimit} /\ NoLimit \notin Nat
  /\ MaxItems \in Nat /\ MaxBody \in Nat /\ Expand \in Nat

VARIABLES
  limit,      \* max_decoded_bytes
  layers,     \* StreamingDecoder.layers, the outermost coding first
  wire,       \* bytes of the body that the transport still has
  total,      \* bytes of the body
  body,       \* StreamReadGuard.body is some
  input,      \* DecodedStream.input
  delivered,  \* bytes handed to the caller; identity_bytes without a layer
  failure,    \* StreamingDecoder.failure, and the layer
  pc          \* where the read is

vars == <<limit, layers, wire, total, body, input, delivered, failure, pc>>

--------------------------------------------------------------------------------
(* StreamingDecodePlan::from_headers over the items of the headers: the      *)
(* coding that was applied last is undone first.                             *)
Codings == {"gzip", "deflate", "br"}
Items == Codings \cup {"identity", "unknown"}
FromHeaders(items) ==
  LET Plan[n \in 0 .. Len(items)] ==
        IF n = 0 THEN <<>>
        ELSE IF items[n] = "identity" THEN Plan[n - 1] ELSE <<items[n]>> \o Plan[n - 1]
  IN  Plan[Len(items)]
Accepted(items) ==
  /\ \A i \in 1 .. Len(items) : items[i] # "unknown"
  /\ Len(FromHeaders(items)) <= MaxLayers

(* made and eaten are the codec's own: the bytes it has decoded so far, and  *)
(* the bytes it has been given; flush is Gzip.flush_pending.                 *)
NewLayer(coding) ==
  [coding |-> coding, state |-> "needsInput", input |-> 0, produced |-> 0,
   flush |-> FALSE, made |-> 0, eaten |-> 0]

NoFailure == [kind |-> "none", layer |-> 0]

Init ==
  /\ \E n \in 0 .. MaxItems : \E items \in [1 .. n -> Items] :
       /\ Accepted(items)
       /\ layers = [i \in 1 .. Len(FromHeaders(items)) |-> NewLayer(FromHeaders(items)[i])]
  /\ limit \in Limits
  /\ total \in 0 .. MaxBody /\ wire = total /\ body = TRUE
  /\ input = 0 /\ delivered = 0
  /\ failure = NoFailure /\ pc = "step"

--------------------------------------------------------------------------------
Least(m, n) == IF m < n THEN m ELSE n

(* What one call of a codec can do with n bytes offered and room for c: it   *)
(* consumes some, and hands out some of what it has made.                    *)
Held(l) == l.made - l.produced

Turns(l, n, c) ==
  {t \in [consumed : 0 .. n, gained : 0 .. Expand * n, produced : 0 .. c] :
     t.gained <= Expand * t.consumed /\ t.produced <= Held(l) + t.gained}

Left(l, t) == Held(l) + t.gained - t.produced

Result(t, status, flush) ==
  [consumed |-> t.consumed, gained |-> t.gained, produced |-> t.produced,
   status |-> status, flush |-> flush]

Failed(t, kind) == Result(t, kind, FALSE)

(* Decompress::decompress goes on until the input or the room is used up. *)
Deflate(l, n, eof, c) ==
  LET Filled(t) == t.produced = Least(c, Held(l) + t.gained) /\ (t.consumed = n \/ t.produced = c)
      Status(t) ==
        IF t.produced # 0 \/ (t.consumed # 0 /\ t.consumed < n) THEN "ready"
        ELSE IF t.consumed = n THEN (IF eof THEN "truncated" ELSE "needsInput")
        ELSE "noProgress"
  IN  {Result(t, "ended", FALSE) : t \in {u \in Turns(l, n, c) : Left(l, u) = 0}}
      \cup {Result(t, Status(t), FALSE) : t \in {u \in Turns(l, n, c) : Filled(u)}}

(* BrotliDecompressStream: success, failure, or which side it needs more of. *)
Brotli(l, n, eof, c) ==
  LET NeedsMoreInput(t) == t.consumed = n /\ (Left(l, t) = 0 \/ t.produced # 0)
      NeedsMoreOutput(t) == t.produced = c /\ Left(l, t) > 0
  IN  {Result(t, "ended", FALSE) : t \in {u \in Turns(l, n, c) : Left(l, u) = 0}}
      \cup {Result(t, IF eof THEN "truncated" ELSE IF t.produced # 0 THEN "ready" ELSE "needsInput",
                   FALSE) : t \in {u \in Turns(l, n, c) : NeedsMoreInput(u)}}
      \cup {Result(t, IF t.consumed = 0 /\ t.produced = 0 THEN "noProgress" ELSE "ready", FALSE) :
              t \in {u \in Turns(l, n, c) : NeedsMoreOutput(u)}}

(* Gzip::step: one write, flush or try_finish of MultiGzDecoder.  A flush    *)
(* that fills the output would block and is tried again; the end of a member *)
(* is not the end of the coding, which only try_finish finds.                *)
Gzip(l, n, eof, c) ==
  LET Drains(t) == t.consumed = 0 /\ t.produced = Least(c, Held(l))
      Drained(t, status) == IF Left(l, t) = 0 THEN Result(t, status, FALSE)
                            ELSE IF t.produced = 0 THEN Failed(t, "noProgress")
                            ELSE Result(t, "ready", TRUE)
      Nothing == [consumed |-> 0, gained |-> 0, produced |-> 0]
  IN  IF l.flush
      THEN {Drained(t, "needsInput") : t \in {u \in Turns(l, n, c) : Drains(u)}}
      ELSE IF n > 0
      THEN {Result(t, "ready", TRUE) : t \in {u \in Turns(l, n, c) : u.consumed > 0}}
      ELSE IF eof
      THEN {Drained(Nothing, "ended"), Failed(Nothing, "truncated")}
      ELSE {Result(Nothing, "needsInput", FALSE)}

(* Codec::step; any codec may find that its input is not valid. *)
Codec(l, n, eof, c) ==
  (CASE l.coding = "gzip" -> Gzip(l, n, eof, c)
     [] l.coding = "deflate" -> Deflate(l, n, eof, c)
     [] l.coding = "br" -> Brotli(l, n, eof, c))
  \cup {Failed([consumed |-> 0, gained |-> 0, produced |-> 0], "invalid")}

Errors == {"truncated", "noProgress", "invalid"}

--------------------------------------------------------------------------------
Available(i) == IF i = 1 THEN input ELSE layers[i].input

UpstreamEof(i, eof) == IF i = 1 THEN eof ELSE layers[i - 1].state = "finished"

Fail(kind, i) ==
  /\ failure' = [kind |-> kind, layer |-> i] /\ pc' = "failed"

(* The slot in front of the next layer is free.  advance visits that layer   *)
(* first, and a layer with a full slot runs or fails, so this always holds.  *)
SlotFree(i) == i < Len(layers) => layers[i + 1].input = 0

(* Mutant: what follows the end of a layer is not looked at. *)
TrailingIgnored(i) == FALSE

(* A layer that has ended must not be given more. *)
Trailing(i) == layers[i].state = "ended" /\ Available(i) > 0

Runs(i, eof) ==
  /\ layers[i].state \in {"ready", "needsInput"}
  /\ layers[i].state = "needsInput" => Available(i) > 0 \/ UpstreamEof(i, eof)
  /\ SlotFree(i)

(* Mutants: the end is never passed on, or not waited for. *)
FinishesNever(i, eof) == FALSE
FinishesAtOnce(i, eof) == layers[i].state = "ended"

(* Layers that have ended finish once there is nothing more to come; the     *)
(* pass of advance visits them from the last layer to the one it stops at.   *)
Finishes(i, eof) == layers[i].state = "ended" /\ UpstreamEof(i, eof)

Passed(stop, eof) ==
  [i \in 1 .. Len(layers) |->
     IF i > stop /\ Finishes(i, eof) THEN [layers[i] EXCEPT !.state = "finished"] ELSE layers[i]]

(* Room for one byte more than the limit allows, so that it can be noticed. *)
Capacity(l) == IF limit = NoLimit THEN OutputSize ELSE Least(limit - l.produced + 1, OutputSize)

(* checked_output *)
TooLarge(n) == limit # NoLimit /\ n > limit

(* Mutant: the end is told before the last bytes. *)
TellsEofEarly(i, eof) == UpstreamEof(i, eof)

(* The end of the input is told to the codec with its last bytes. *)
TellsEof(i, eof) == UpstreamEof(i, eof) /\ Available(i) <= InputSize

(* run_layer *)
RunLayer(i, eof) ==
  LET l == layers[i]
      passed == Passed(i, eof)
      offered == Least(Available(i), InputSize)
  IN  \E r \in Codec(l, offered, TellsEof(i, eof), Capacity(l)) :
        IF r.status \in Errors \/ TooLarge(l.produced + r.produced)
        THEN /\ Fail(IF r.status \in Errors THEN r.status ELSE "tooLarge", i)
             /\ layers' = [passed EXCEPT ![i].made = @ + r.gained]
             /\ UNCHANGED <<input, delivered>>
        ELSE /\ layers' =
                  [j \in 1 .. Len(layers) |->
                     IF j = i
                     THEN [l EXCEPT !.produced = @ + r.produced, !.made = @ + r.gained,
                                    !.eaten = @ + r.consumed, !.state = r.status, !.flush = r.flush,
                                    !.input = IF i = 1 THEN 0 ELSE @ - r.consumed]
                     ELSE IF j = i + 1 /\ r.produced # 0
                     THEN [passed[j] EXCEPT !.input = r.produced]
                     ELSE passed[j]]
             /\ input' = IF i = 1 THEN input - r.consumed ELSE input
             /\ delivered' = IF i = Len(layers) THEN delivered + r.produced ELSE delivered
             /\ UNCHANGED <<failure, pc>>

(* No layer could run. *)
Rests(done, eof) == IF done THEN "finished" ELSE IF eof THEN "step" ELSE "refill"

(* advance with layers: downstream first. *)
Advance(eof) ==
  LET stops == {i \in 1 .. Len(layers) : Trailing(i) \/ Runs(i, eof)}
      i == Max(stops)
  IN  \/ /\ stops # {} /\ Trailing(i)
         /\ Fail("trailing", i) /\ layers' = Passed(i, eof)
         /\ UNCHANGED <<input, delivered>>
      \/ stops # {} /\ ~Trailing(i) /\ RunLayer(i, eof)
      \/ /\ stops = {} /\ layers' = Passed(0, eof)
         /\ pc' = Rests(\A j \in 1 .. Len(layers) : layers'[j].state = "finished", eof)
         /\ UNCHANGED <<input, delivered, failure>>

(* identity *)
Identity(eof) ==
  LET consumed == Least(input, InputSize)
  IN  /\ UNCHANGED layers
      /\ IF TooLarge(delivered + consumed)
         THEN Fail("tooLarge", 0) /\ UNCHANGED <<input, delivered>>
         ELSE /\ input' = input - consumed /\ delivered' = delivered + consumed
              /\ pc' = IF consumed # 0 THEN "step" ELSE IF eof THEN "finished" ELSE "refill"
              /\ UNCHANGED failure

(* One round of read_decoded_chunk: the transport may already say that the   *)
(* body is at its end.  A chunk is returned and the next read goes on.       *)
Step ==
  /\ pc = "step"
  /\ \E ends \in BOOLEAN :
       /\ ends => wire = 0
       /\ body' = (body /\ ~ends)
       /\ IF layers = <<>> THEN Identity(~body') ELSE Advance(~body')
  /\ UNCHANGED <<limit, wire, total>>

(* refill_decoded_input: a frame, the end of the body, or an error of the    *)
(* transport or the read timeout.                                            *)
Refill ==
  /\ pc = "refill"
  /\ \/ /\ \E n \in 1 .. wire : input' = n /\ wire' = wire - n
        /\ pc' = "step" /\ UNCHANGED <<body, failure>>
     \/ wire = 0 /\ body' = FALSE /\ pc' = "step" /\ UNCHANGED <<wire, input, failure>>
     \/ Fail("transport", 0) /\ UNCHANGED <<wire, input, body>>
  /\ UNCHANGED <<limit, layers, total, delivered>>

Next == Step \/ Refill

Spec == Init /\ [][Next]_vars

(* The caller goes on reading; a transport that is silent times out. *)
FairSpec == Spec /\ WF_vars(Next)

--------------------------------------------------------------------------------
(* No byte is overwritten or skipped between two layers, or between the      *)
(* transport and the first one: a slot is only filled when it is empty, also *)
(* when a layer further down has ended early, and more input is asked for    *)
(* only when the last frame is used up (the debug_assert of                  *)
(* refill_decoded_input) and there is a body to ask.                         *)
NothingOverwritten ==
  /\ \A i \in 2 .. Len(layers) :
       layers[i - 1].produced = layers[i].eaten + layers[i].input
  /\ layers # <<>> => /\ total = wire + input + layers[1].eaten
                      /\ delivered = layers[Len(layers)].produced
  /\ layers = <<>> => total = wire + input + delivered
  /\ pc = "refill" => body /\ input = 0

(* A body is reported as complete only when every layer has found its end,   *)
(* has handed out all it decoded and was given nothing beyond: neither a     *)
(* truncated nor a trailing representation looks like success.               *)
FinishedIsComplete ==
  pc = "finished" =>
    /\ wire = 0 /\ input = 0 /\ ~body
    /\ \A i \in 1 .. Len(layers) : layers[i].state = "finished" /\ layers[i].input = 0
                                   /\ Held(layers[i]) = 0
    /\ ~TooLarge(delivered)

(* The decoder does not make up a failure: it never leaves a codec without   *)
(* room or input and then blames it, it calls a layer truncated only when it *)
(* was shown everything it will ever get, and a body too large only when a   *)
(* layer really decodes to more than max_decoded_bytes.                      *)
NoFalseFailure ==
  LET i == failure.layer
  IN  /\ failure.kind # "noProgress"
      /\ failure.kind = "truncated" =>
           UpstreamEof(i, ~body) /\ Available(i) <= InputSize
      /\ failure.kind = "tooLarge" /\ i # 0 => layers[i].made > limit

(* The reads of a caller that goes on reading come to an end: "Progress" is  *)
(* never reported for ever, also while the end is passed on layer by layer.  *)
DecodeEnds == <>(pc \in {"finished", "failed"})
================================================================================
