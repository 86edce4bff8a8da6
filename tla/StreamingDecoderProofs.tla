------------------------ MODULE StreamingDecoderProofs ------------------------
(***************************************************************************)
(* The safety properties of StreamingDecoder for every value of the        *)
(* constants.  What the invariant adds to them is what each layer must     *)
(* know for its next step: how much the codec still holds, that a layer    *)
(* which has finished has nothing before it any more, and that no failure  *)
(* was noted while the read goes on.                                       *)
(***************************************************************************)
EXTENDS StreamingDecoder, WellFoundedInduction, SequenceTheorems, TLAPS

--------------------------------------------------------------------------------
(* The inductive invariant. *)

Layer ==
  [coding : Codings, state : {"ready", "needsInput", "ended", "finished"}, input : Nat,
   produced : Nat, flush : BOOLEAN, made : Nat, eaten : Nat]

Kinds == {"none", "truncated", "noProgress", "invalid", "tooLarge", "trailing", "transport"}

TypeOK ==
  /\ limit \in Nat \cup {NoLimit}
  /\ layers \in Seq(Layer)
  /\ wire \in Nat /\ total \in Nat /\ input \in Nat /\ delivered \in Nat
  /\ body \in BOOLEAN
  /\ failure \in [kind : Kinds, layer : Nat]
  /\ pc \in {"step", "refill", "finished", "failed"}

(* What a codec holds.  A decoded layer is within the limit, and one whose   *)
(* codec found the end, or a gzip layer with no flush pending, has handed    *)
(* out all it made.                                                          *)
CodecInv(i) ==
  LET l == layers[i]
  IN  /\ l.produced <= l.made
      /\ ~TooLarge(l.produced)
      /\ pc # "failed" /\ l.coding = "gzip" /\ ~l.flush => Held(l) = 0
      /\ l.state \in {"ended", "finished"} => Held(l) = 0

(* The end of the body has come through all layers before a finished one. *)
ChainInv(i) ==
  /\ i = 1 => layers[i].input = 0
  /\ layers[i].state = "finished" =>
       /\ layers[i].input = 0
       /\ i = 1 => input = 0 /\ ~body
       /\ i > 1 => layers[i - 1].state = "finished"

ReadInv ==
  /\ ~body => wire = 0
  /\ pc # "failed" => failure = NoFailure
  /\ layers = <<>> => ~TooLarge(delivered)
  /\ pc = "finished" =>
       /\ input = 0 /\ ~body
       /\ \A i \in 1 .. Len(layers) : layers[i].state = "finished"

IInv ==
  /\ TypeOK /\ ReadInv
  /\ \A i \in 1 .. Len(layers) : CodecInv(i) /\ ChainInv(i)
  /\ NothingOverwritten
  /\ NoFalseFailure

--------------------------------------------------------------------------------
(* Least and greatest elements, and induction, from the well-foundedness of  *)
(* the natural numbers.                                                      *)

LEMMA LeastExists ==
  ASSUME NEW T, T \subseteq Nat, T # {}
  PROVE  \E x \in T : \A y \in T : x <= y
<1>1. PICK x \in T : \A y \in T : <<y, x>> \notin OpToRel(<, Nat)
  BY WFMin, NatLessThanWellFounded, Zenon
<1>2. \A y \in T : <<y, x>> \in Nat \X Nat
  OBVIOUS
<1>3. \A y \in T : ~(y < x)
  BY <1>1, <1>2, Zenon DEF OpToRel
<1>4. \A y \in T : y \in Nat /\ x \in Nat
  OBVIOUS
<1>5. \A y \in T : x <= y
  BY <1>3, <1>4
<1>6. QED
  BY <1>5

LEMMA Induction ==
  ASSUME NEW S, S \subseteq Nat, 0 \in S, \A n \in S : n + 1 \in S
  PROVE  Nat \subseteq S
<1>1. SUFFICES ASSUME Nat \ S # {} PROVE FALSE
  OBVIOUS
<1>2. PICK x \in Nat \ S : \A y \in Nat \ S : x <= y
  BY <1>1, LeastExists
<1>3. x # 0 /\ x - 1 \in Nat
  BY <1>2
<1>4. x - 1 \in S
  BY <1>2, <1>3
<1>5. QED
  BY <1>2, <1>3, <1>4

LEMMA GreatestExists ==
  ASSUME NEW n \in Nat, NEW T, T \subseteq 1 .. n, T # {}
  PROVE  \E x \in T : \A y \in T : y <= x
<1> DEFINE D == {m \in Nat : n - m \in T}
<1>1. D \subseteq Nat /\ D # {}
  <2>1. PICK y \in T : TRUE
    OBVIOUS
  <2>2. n - y \in Nat /\ n - (n - y) = y
    OBVIOUS
  <2>3. QED
    BY <2>2
<1>2. PICK x \in D : \A y \in D : x <= y
  BY <1>1, LeastExists
<1>3. ASSUME NEW y \in T PROVE y <= n - x
  <2>1. y \in 1 .. n
    OBVIOUS
  <2>2. n - y \in D
    BY <2>1
  <2>3. x <= n - y
    BY <1>2, <2>2
  <2>4. QED
    BY <2>1, <2>3, <1>2
<1>4. QED
  BY <1>2, <1>3

(* The layer at which advance stops. *)
LEMMA MaxIsGreatest ==
  ASSUME NEW n \in Nat, NEW T, T \subseteq 1 .. n, T # {}
  PROVE  Max(T) \in T /\ \A y \in T : y <= Max(T)
<1>1. \E x \in T : \A y \in T : x >= y
  BY GreatestExists
<1>2. QED
  BY <1>1 DEF Max

--------------------------------------------------------------------------------
(* The plan: from_headers makes layers of codings only. *)

IsPlan(plan, items, m) ==
  plan = [n \in 0 .. m |->
            IF n = 0 THEN <<>>
            ELSE IF items[n] = "identity" THEN plan[n - 1] ELSE <<items[n]>> \o plan[n - 1]]

LEMMA PlanExists ==
  ASSUME NEW items
  PROVE  \A m \in Nat : \E plan : IsPlan(plan, items, m)
<1> DEFINE S == {m \in Nat : \E plan : IsPlan(plan, items, m)}
<1>1. 0 \in S
  <2>1. IsPlan([n \in 0 .. 0 |-> <<>>], items, 0)
    BY DEF IsPlan
  <2>2. QED
    BY <2>1
<1>2. ASSUME NEW m \in S PROVE m + 1 \in S
  <2>1. PICK plan : IsPlan(plan, items, m)
    OBVIOUS
  <2> DEFINE more == [n \in 0 .. m + 1 |->
                        IF n = m + 1
                        THEN (IF items[n] = "identity" THEN plan[m] ELSE <<items[n]>> \o plan[m])
                        ELSE plan[n]]
  <2>2. ASSUME NEW n \in 0 .. m + 1
        PROVE  more[n] = IF n = 0 THEN <<>>
                         ELSE IF items[n] = "identity" THEN more[n - 1]
                         ELSE <<items[n]>> \o more[n - 1]
    <3>1. CASE n = m + 1
      <4>1. n # 0 /\ n - 1 = m /\ m \in 0 .. m + 1 /\ m # m + 1
        BY <3>1
      <4>2. more[n - 1] = plan[m]
        BY <4>1
      <4>3. QED
        BY <3>1, <4>1, <4>2
    <3>2. CASE n = 0
      <4>1. n \in 0 .. m /\ more[n] = plan[n]
        BY <3>2
      <4>2. QED
        BY <2>1, <3>2, <4>1 DEF IsPlan
    <3>3. CASE n # m + 1 /\ n # 0
      <4>1. n \in 0 .. m /\ n - 1 \in 0 .. m + 1 /\ n - 1 # m + 1
        BY <3>3
      <4>2. more[n] = plan[n] /\ more[n - 1] = plan[n - 1]
        BY <3>3, <4>1
      <4>3. plan[n] = IF items[n] = "identity" THEN plan[n - 1] ELSE <<items[n]>> \o plan[n - 1]
        BY <2>1, <3>3, <4>1 DEF IsPlan
      <4>4. QED
        BY <3>3, <4>2, <4>3
    <3>4. QED
      BY <3>1, <3>2, <3>3
  <2>3. IsPlan(more, items, m + 1)
    <3> HIDE DEF more
    <3>1. more = [n \in 0 .. m + 1 |-> more[n]]
      BY DEF more
    <3>2. QED
      BY <3>1, <2>2 DEF IsPlan
  <2>4. QED
    BY <2>3
<1>3. QED
  <2>1. Nat \subseteq S
    <3> HIDE DEF S
    <3>1. S \subseteq Nat
      BY DEF S
    <3>2. QED
      BY <1>1, <1>2, <3>1, Induction
  <2>2. QED
    BY <2>1

LEMMA FromHeadersType ==
  ASSUME NEW k \in Nat, NEW items \in [1 .. k -> Items],
         \A i \in 1 .. k : items[i] # "unknown"
  PROVE  FromHeaders(items) \in Seq(Codings)
<1>1. Len(items) = k
  BY SeqDef
<1>2. PICK plan : IsPlan(plan, items, k) /\ FromHeaders(items) = plan[k]
  <2> DEFINE plan == CHOOSE p : IsPlan(p, items, k)
  <2>1. IsPlan(plan, items, k)
    BY PlanExists
  <2>2. FromHeaders(items) = plan[k]
    BY <1>1 DEF FromHeaders, IsPlan
  <2>3. QED
    BY <2>1, <2>2
<1> DEFINE S == {n \in Nat : n <= k => plan[n] \in Seq(Codings)}
<1>3. 0 \in S
  <2>1. plan[0] = <<>>
    BY <1>2 DEF IsPlan
  <2>2. <<>> \in Seq(Codings)
    BY EmptySeq
  <2>3. QED
    BY <2>1, <2>2
<1>4. ASSUME NEW n \in S PROVE n + 1 \in S
  <2>1. SUFFICES ASSUME n + 1 <= k PROVE plan[n + 1] \in Seq(Codings)
    OBVIOUS
  <2>2. n + 1 \in 0 .. k /\ n + 1 \in 1 .. k /\ n + 1 # 0 /\ (n + 1) - 1 = n
    BY <2>1
  <2>3. plan[n + 1] = IF items[n + 1] = "identity" THEN plan[n] ELSE <<items[n + 1]>> \o plan[n]
    BY <1>2, <2>2 DEF IsPlan
  <2>4. plan[n] \in Seq(Codings)
    BY <2>1
  <2>5. items[n + 1] \in Items /\ items[n + 1] # "unknown"
    BY <2>2
  <2>6. CASE items[n + 1] = "identity"
    BY <2>3, <2>4, <2>6
  <2>7. CASE items[n + 1] # "identity"
    <3>1. items[n + 1] \in Codings
      BY <2>5, <2>7 DEF Items
    <3>2. <<items[n + 1]>> \in Seq(Codings)
      BY <3>1
    <3>3. QED
      BY <2>3, <2>4, <2>7, <3>2
  <2>8. QED
    BY <2>6, <2>7
<1>5. QED
  <2>1. Nat \subseteq S
    <3> HIDE DEF S
    <3>1. S \subseteq Nat
      BY DEF S
    <3>2. QED
      BY <1>3, <1>4, <3>1, Induction
  <2>2. QED
    BY <1>2, <2>1

--------------------------------------------------------------------------------
(* The codecs. *)

LEMMA LeastIs ==
  ASSUME NEW m \in Nat, NEW n \in Nat
  PROVE  /\ Least(m, n) \in Nat /\ Least(m, n) <= m /\ Least(m, n) <= n
         /\ Least(m, n) = m \/ Least(m, n) = n
BY DEF Least

LEMMA TurnFacts ==
  ASSUME NEW l \in Layer, l.produced <= l.made, NEW n \in Nat, NEW c \in Nat, NEW t \in Turns(l, n, c)
  PROVE  /\ t.consumed \in 0 .. n /\ t.gained \in Nat /\ t.produced \in 0 .. c
         /\ Held(l) \in Nat /\ Left(l, t) \in Nat /\ t.produced <= Held(l) + t.gained
         /\ t.consumed = 0 => t.gained = 0
<1>1. /\ t.consumed \in 0 .. n /\ t.gained \in 0 .. Expand * n /\ t.produced \in 0 .. c
      /\ t.gained <= Expand * t.consumed /\ t.produced <= Held(l) + t.gained
  BY DEF Turns
<1>2. Expand \in Nat /\ Expand * 0 = 0
  BY DecoderAssumption
<1>3. t.gained \in Nat
  BY <1>1
<1>4. l.made \in Nat /\ l.produced \in Nat
  BY DEF Layer
<1>5. Held(l) \in Nat
  BY <1>4 DEF Held
<1>6. Left(l, t) \in Nat
  BY <1>1, <1>3, <1>5 DEF Left
<1>7. t.consumed = 0 => t.gained = 0
  BY <1>1, <1>2, <1>3
<1>8. QED
  BY <1>1, <1>3, <1>5, <1>6, <1>7

(* What a caller of a codec may rely on: the codec keeps to the bytes and    *)
(* the room it is given, hands out nothing it has not made, has nothing left *)
(* when it says that it ended, and is never without progress.                *)
CodecResult(l, n, eof, c, r) ==
  /\ r.consumed \in 0 .. n /\ r.gained \in Nat /\ r.produced \in 0 .. c
  /\ r.produced <= Held(l) + r.gained
  /\ r.status \in {"ready", "needsInput", "ended", "truncated", "invalid"}
  /\ r.flush \in BOOLEAN
  /\ r.status = "truncated" => eof
  /\ r.status = "ended" => Held(l) + r.gained = r.produced
  /\ r.status \notin Errors /\ l.coding = "gzip" /\ ~r.flush => Held(l) + r.gained = r.produced

LEMMA DeflateResult ==
  ASSUME NEW l \in Layer, l.produced <= l.made, l.coding # "gzip",
         NEW n \in Nat, NEW eof \in BOOLEAN, NEW c \in Nat \ {0}, NEW r \in Deflate(l, n, eof, c)
  PROVE  CodecResult(l, n, eof, c, r)
<1> DEFINE Filled(t) == t.produced = Least(c, Held(l) + t.gained) /\ (t.consumed = n \/ t.produced = c)
           Status(t) ==
             IF t.produced # 0 \/ (t.consumed # 0 /\ t.consumed < n) THEN "ready"
             ELSE IF t.consumed = n THEN (IF eof THEN "truncated" ELSE "needsInput")
             ELSE "noProgress"
<1>1. CASE r \in {Result(t, "ended", FALSE) : t \in {u \in Turns(l, n, c) : Left(l, u) = 0}}
  <2>1. PICK t \in Turns(l, n, c) : Left(l, t) = 0 /\ r = Result(t, "ended", FALSE)
    BY <1>1
  <2>2. /\ r.consumed = t.consumed /\ r.gained = t.gained /\ r.produced = t.produced
        /\ r.status = "ended" /\ r.flush = FALSE
    BY <2>1 DEF Result
  <2>3. Held(l) + t.gained = t.produced
    BY <2>1, TurnFacts DEF Left
  <2>4. QED
    BY <2>2, <2>3, TurnFacts DEF CodecResult
<1>2. CASE r \in {Result(t, Status(t), FALSE) : t \in {u \in Turns(l, n, c) : Filled(u)}}
  <2>1. PICK t \in Turns(l, n, c) : Filled(t) /\ r = Result(t, Status(t), FALSE)
    BY <1>2
  <2>2. /\ r.consumed = t.consumed /\ r.gained = t.gained /\ r.produced = t.produced
        /\ r.status = Status(t) /\ r.flush = FALSE
    BY <2>1 DEF Result
  <2>3. t.produced = 0 => t.consumed = n
    BY <2>1
  <2>4. Status(t) \in {"ready", "needsInput", "truncated"} /\ (Status(t) = "truncated" => eof)
    BY <2>3
  <2> HIDE DEF Status
  <2>5. QED
    BY <2>2, <2>4, TurnFacts DEF CodecResult
<1>3. QED
  BY <1>1, <1>2 DEF Deflate

LEMMA BrotliResult ==
  ASSUME NEW l \in Layer, l.produced <= l.made, l.coding # "gzip",
         NEW n \in Nat, NEW eof \in BOOLEAN, NEW c \in Nat \ {0}, NEW r \in Brotli(l, n, eof, c)
  PROVE  CodecResult(l, n, eof, c, r)
<1> DEFINE More(t) == IF eof THEN "truncated" ELSE IF t.produced # 0 THEN "ready" ELSE "needsInput"
           Full(t) == IF t.consumed = 0 /\ t.produced = 0 THEN "noProgress" ELSE "ready"
<1>1. CASE r \in {Result(t, "ended", FALSE) : t \in {u \in Turns(l, n, c) : Left(l, u) = 0}}
  <2>1. PICK t \in Turns(l, n, c) : Left(l, t) = 0 /\ r = Result(t, "ended", FALSE)
    BY <1>1
  <2>2. /\ r.consumed = t.consumed /\ r.gained = t.gained /\ r.produced = t.produced
        /\ r.status = "ended" /\ r.flush = FALSE
    BY <2>1 DEF Result
  <2>3. Held(l) + t.gained = t.produced
    BY <2>1, TurnFacts DEF Left
  <2>4. QED
    BY <2>2, <2>3, TurnFacts DEF CodecResult
<1>2. ASSUME NEW t \in Turns(l, n, c), r = Result(t, More(t), FALSE)
      PROVE  CodecResult(l, n, eof, c, r)
  <2>1. /\ r.consumed = t.consumed /\ r.gained = t.gained /\ r.produced = t.produced
        /\ r.status = More(t) /\ r.flush = FALSE
    BY <1>2 DEF Result
  <2>2. More(t) \in {"ready", "needsInput", "truncated"} /\ (More(t) = "truncated" => eof)
    OBVIOUS
  <2> HIDE DEF More
  <2>3. QED
    BY <2>1, <2>2, TurnFacts DEF CodecResult
<1>3. ASSUME NEW t \in Turns(l, n, c), t.produced = c, r = Result(t, Full(t), FALSE)
      PROVE  CodecResult(l, n, eof, c, r)
  <2>1. /\ r.consumed = t.consumed /\ r.gained = t.gained /\ r.produced = t.produced
        /\ r.status = Full(t) /\ r.flush = FALSE
    BY <1>3 DEF Result
  <2>2. Full(t) = "ready"
    BY <1>3
  <2> HIDE DEF Full
  <2>3. QED
    BY <2>1, <2>2, TurnFacts DEF CodecResult
<1>4. QED
  BY <1>1, <1>2, <1>3 DEF Brotli

LEMMA GzipResult ==
  ASSUME NEW l \in Layer, l.produced <= l.made, ~l.flush => Held(l) = 0,
         NEW n \in Nat, NEW eof \in BOOLEAN, NEW c \in Nat \ {0}, NEW r \in Gzip(l, n, eof, c)
  PROVE  CodecResult(l, n, eof, c, r)
<1> DEFINE Drained(t, status) == IF Left(l, t) = 0 THEN Result(t, status, FALSE)
                                 ELSE IF t.produced = 0 THEN Failed(t, "noProgress")
                                 ELSE Result(t, "ready", TRUE)
           Nothing == [consumed |-> 0, gained |-> 0, produced |-> 0]
<1>0. /\ Nothing \in Turns(l, n, c)
      /\ Nothing.consumed = 0 /\ Nothing.gained = 0 /\ Nothing.produced = 0
  <2>1. Held(l) \in Nat
    BY DEF Held, Layer
  <2>2. Expand \in Nat /\ Expand * n \in Nat /\ Expand * 0 = 0
    BY DecoderAssumption
  <2>3. QED
    BY <2>1, <2>2 DEF Turns
<1> HIDE DEF Nothing
<1>1. CASE l.flush
  <2>1. PICK t \in Turns(l, n, c) :
          t.consumed = 0 /\ t.produced = Least(c, Held(l)) /\ r = Drained(t, "needsInput")
    BY <1>1 DEF Gzip
  <2>2. t.gained = 0 /\ Held(l) \in Nat
    BY <2>1, TurnFacts
  <2>3. t.produced = 0 => Left(l, t) = 0
    BY <2>1, <2>2, TurnFacts DEF Left, Least
  <2>4. CASE Left(l, t) = 0
    <3>1. /\ r.consumed = t.consumed /\ r.gained = t.gained /\ r.produced = t.produced
          /\ r.status = "needsInput" /\ r.flush = FALSE
      BY <2>1, <2>4 DEF Result
    <3>2. Held(l) + t.gained = t.produced
      BY <2>4, TurnFacts DEF Left
    <3>3. QED
      BY <3>1, <3>2, TurnFacts DEF CodecResult
  <2>5. CASE Left(l, t) # 0
    <3>1. /\ r.consumed = t.consumed /\ r.gained = t.gained /\ r.produced = t.produced
          /\ r.status = "ready" /\ r.flush = TRUE
      BY <2>1, <2>3, <2>5 DEF Result
    <3>2. QED
      BY <3>1, TurnFacts DEF CodecResult
  <2>6. QED
    BY <2>4, <2>5
<1>2. CASE ~l.flush /\ n > 0
  <2>1. PICK t \in Turns(l, n, c) : r = Result(t, "ready", TRUE)
    BY <1>2 DEF Gzip
  <2>2. /\ r.consumed = t.consumed /\ r.gained = t.gained /\ r.produced = t.produced
        /\ r.status = "ready" /\ r.flush = TRUE
    BY <2>1 DEF Result
  <2>3. QED
    BY <2>2, TurnFacts DEF CodecResult
<1>3. CASE ~l.flush /\ ~(n > 0)
  <2>1. Left(l, Nothing) = 0 /\ Held(l) + Nothing.gained = Nothing.produced
    BY <1>3, <1>0 DEF Left
  <2>2. \/ eof /\ r = Result(Nothing, "ended", FALSE)
        \/ eof /\ r = Result(Nothing, "truncated", FALSE)
        \/ r = Result(Nothing, "needsInput", FALSE)
    BY <1>3, <2>1 DEF Gzip, Failed, Nothing
  <2>3. /\ r.consumed = Nothing.consumed /\ r.gained = Nothing.gained
        /\ r.produced = Nothing.produced /\ r.flush = FALSE
        /\ \/ eof /\ r.status \in {"ended", "truncated"}
           \/ r.status = "needsInput"
    BY <2>2 DEF Result
  <2>4. QED
    BY <1>0, <2>1, <2>3, TurnFacts DEF CodecResult
<1>4. QED
  BY <1>1, <1>2, <1>3

LEMMA CodecIs ==
  ASSUME NEW l \in Layer, l.produced <= l.made, l.coding = "gzip" /\ ~l.flush => Held(l) = 0,
         NEW n \in Nat, NEW eof \in BOOLEAN, NEW c \in Nat \ {0}, NEW r \in Codec(l, n, eof, c)
  PROVE  CodecResult(l, n, eof, c, r)
<1> DEFINE Nothing == [consumed |-> 0, gained |-> 0, produced |-> 0]
<1>1. CASE r = Failed(Nothing, "invalid")
  <2>1. /\ r.consumed = 0 /\ r.gained = 0 /\ r.produced = 0
        /\ r.status = "invalid" /\ r.flush = FALSE
    BY <1>1 DEF Failed, Result
  <2>2. Held(l) \in Nat
    BY DEF Held, Layer
  <2>3. r.produced <= Held(l) + r.gained
    BY <2>1, <2>2
  <2>4. r.status \in Errors
    BY <2>1 DEF Errors
  <2>5. r.consumed \in 0 .. n /\ r.gained \in Nat /\ r.produced \in 0 .. c
    BY <2>1
  <2>6. QED
    BY <2>1, <2>3, <2>4, <2>5 DEF CodecResult
<1>2. CASE r # Failed(Nothing, "invalid")
  <2>1. l.coding \in {"gzip", "deflate", "br"}
    BY DEF Layer, Codings
  <2>2. \/ l.coding = "gzip" /\ r \in Gzip(l, n, eof, c)
        \/ l.coding = "deflate" /\ r \in Deflate(l, n, eof, c)
        \/ l.coding = "br" /\ r \in Brotli(l, n, eof, c)
    BY <1>2, <2>1 DEF Codec
  <2>3. QED
    BY <2>2, GzipResult, DeflateResult, BrotliResult
<1>3. QED
  BY <1>1, <1>2

--------------------------------------------------------------------------------
(* The pass of advance over the layers. *)

LEMMA SeqOf ==
  ASSUME NEW S, NEW n \in Nat, NEW f \in [1 .. n -> S]
  PROVE  f \in Seq(S) /\ Len(f) = n
<1>1. f \in Seq(S)
  BY SeqDef
<1>2. QED
  BY <1>1, LenProperties

(* A layer that differs from another one in its state at most. *)
Restated(m, l) ==
  /\ m.coding = l.coding /\ m.input = l.input /\ m.produced = l.produced
  /\ m.flush = l.flush /\ m.made = l.made /\ m.eaten = l.eaten

LEMMA PassedFacts ==
  ASSUME TypeOK, NEW stop \in Nat, NEW eof \in BOOLEAN
  PROVE  /\ Passed(stop, eof) \in [1 .. Len(layers) -> Layer]
         /\ \A j \in 1 .. Len(layers) :
              /\ Restated(Passed(stop, eof)[j], layers[j])
              /\ \/ Passed(stop, eof)[j].state = layers[j].state
                 \/ j > stop /\ Finishes(j, eof) /\ Passed(stop, eof)[j].state = "finished"
              /\ j <= stop => Passed(stop, eof)[j] = layers[j]
<1>1. Len(layers) \in Nat /\ \A j \in 1 .. Len(layers) : layers[j] \in Layer
  BY LenProperties, ElementOfSeq DEF TypeOK
<1>2. ASSUME NEW j \in 1 .. Len(layers)
      PROVE  /\ Passed(stop, eof)[j] \in Layer
             /\ Restated(Passed(stop, eof)[j], layers[j])
             /\ \/ Passed(stop, eof)[j].state = layers[j].state
                \/ j > stop /\ Finishes(j, eof) /\ Passed(stop, eof)[j].state = "finished"
             /\ j <= stop => Passed(stop, eof)[j] = layers[j]
  <2>1. layers[j] \in Layer
    BY <1>1
  <2>2. CASE j > stop /\ Finishes(j, eof)
    <3>1. Passed(stop, eof)[j] = [layers[j] EXCEPT !.state = "finished"]
      BY <2>2 DEF Passed
    <3>2. ~(j <= stop)
      BY <2>2
    <3>3. QED
      BY <2>1, <2>2, <3>1, <3>2 DEF Layer, Restated
  <2>3. CASE ~(j > stop /\ Finishes(j, eof))
    <3>1. Passed(stop, eof)[j] = layers[j]
      BY <2>3 DEF Passed
    <3>2. QED
      BY <2>1, <3>1 DEF Restated
  <2>4. QED
    BY <2>2, <2>3
<1>3. Passed(stop, eof) \in [1 .. Len(layers) -> Layer]
  <2>1. Passed(stop, eof) = [j \in 1 .. Len(layers) |-> Passed(stop, eof)[j]]
    BY DEF Passed
  <2>2. QED
    BY <1>2, <2>1
<1>4. QED
  BY <1>2, <1>3

(* One round of a read that is not yet at an end. *)
Round(eof) ==
  /\ pc = "step"
  /\ body' \in BOOLEAN /\ eof = ~body'
  /\ ~body' => wire = 0
  /\ ~body => ~body'
  /\ UNCHANGED <<limit, wire, total>>

(* Nothing waits before a layer that is passed: the end of the body comes    *)
(* through the layers in order.                                              *)
PassedChain(p, eof) ==
  \A j \in 1 .. Len(layers) :
    /\ p[j].produced <= p[j].made
    /\ ~TooLarge(p[j].produced)
    /\ p[j].coding = "gzip" /\ ~p[j].flush => Held(p[j]) = 0
    /\ p[j].state \in {"ended", "finished"} => Held(p[j]) = 0
    /\ j = 1 => p[j].input = 0
    /\ p[j].state = "finished" =>
         /\ p[j].input = 0
         /\ j = 1 => input = 0 /\ eof
         /\ j > 1 => p[j - 1].state = "finished"

LEMMA PassKeepsChain ==
  ASSUME IInv, NEW stop \in Nat, NEW eof \in BOOLEAN, Round(eof),
         \A j \in 1 .. Len(layers) : j > stop => ~Trailing(j)
  PROVE  PassedChain(Passed(stop, eof), eof)
<1> DEFINE p == Passed(stop, eof)
<1>0. SUFFICES ASSUME NEW j \in 1 .. Len(layers)
               PROVE  /\ p[j].produced <= p[j].made
                      /\ ~TooLarge(p[j].produced)
                      /\ p[j].coding = "gzip" /\ ~p[j].flush => Held(p[j]) = 0
                      /\ p[j].state \in {"ended", "finished"} => Held(p[j]) = 0
                      /\ j = 1 => p[j].input = 0
                      /\ p[j].state = "finished" =>
                           /\ p[j].input = 0
                           /\ j = 1 => input = 0 /\ eof
                           /\ j > 1 => p[j - 1].state = "finished"
  BY DEF PassedChain
<1>1. TypeOK /\ CodecInv(j) /\ ChainInv(j) /\ pc # "failed"
  BY DEF IInv, Round
<1>2. /\ Restated(p[j], layers[j])
      /\ \/ p[j].state = layers[j].state
         \/ j > stop /\ Finishes(j, eof) /\ p[j].state = "finished"
  BY <1>1, PassedFacts
<1>3. Len(layers) \in Nat /\ layers[j] \in Layer
  BY <1>1, LenProperties, ElementOfSeq DEF TypeOK
<1> HIDE DEF p
<1>4. Held(p[j]) = Held(layers[j])
  BY <1>2 DEF Restated, Held
<1>5. p[j].state \in {"ended", "finished"} => layers[j].state \in {"ended", "finished"}
  BY <1>2 DEF Finishes
<1>6. ASSUME p[j].state = "finished"
      PROVE  /\ p[j].input = 0
             /\ j = 1 => input = 0 /\ eof
             /\ j > 1 => layers[j - 1].state = "finished"
  <2>1. CASE layers[j].state = "finished"
    <3>1. j = 1 => eof
      BY <1>1, <2>1 DEF ChainInv, Round
    <3>2. QED
      BY <1>1, <1>2, <2>1, <3>1 DEF ChainInv, Restated
  <2>2. CASE layers[j].state # "finished"
    <3>1. j > stop /\ layers[j].state = "ended" /\ UpstreamEof(j, eof)
      BY <1>2, <1>6, <2>2 DEF Finishes
    <3>2. ~(Available(j) > 0)
      BY <3>1 DEF Trailing
    <3>3. input \in Nat /\ layers[j].input \in Nat
      BY <1>1, <1>3 DEF TypeOK, Layer
    <3>4. CASE j = 1
      <4>1. input = 0 /\ eof
        BY <3>1, <3>2, <3>3, <3>4 DEF Available, UpstreamEof
      <4>2. QED
        BY <1>1, <1>2, <3>4, <4>1 DEF ChainInv, Restated
    <3>5. CASE j # 1
      <4>1. layers[j].input = 0 /\ layers[j - 1].state = "finished"
        BY <3>1, <3>2, <3>3, <3>5 DEF Available, UpstreamEof
      <4>2. QED
        BY <1>2, <3>5, <4>1 DEF Restated
    <3>6. QED
      BY <3>4, <3>5
  <2>3. QED
    BY <2>1, <2>2
<1>7. ASSUME p[j].state = "finished", j > 1 PROVE p[j - 1].state = "finished"
  <2>1. j - 1 \in 1 .. Len(layers) /\ layers[j - 1].state = "finished"
    BY <1>3, <1>6, <1>7
  <2>2. p[j - 1].state = layers[j - 1].state \/ p[j - 1].state = "finished"
    BY <1>1, <2>1, PassedFacts DEF p
  <2>3. QED
    BY <2>1, <2>2
<1>8. QED
  BY <1>1, <1>2, <1>4, <1>5, <1>6, <1>7 DEF CodecInv, ChainInv, Restated

--------------------------------------------------------------------------------
(* The steps. *)

LEMMA LayersAre ==
  ASSUME TypeOK
  PROVE  /\ Len(layers) \in Nat
         /\ layers = <<>> <=> Len(layers) = 0
         /\ \A j \in 1 .. Len(layers) : layers[j] \in Layer
<1>1. layers \in Seq(Layer)
  BY DEF TypeOK
<1>2. QED
  BY <1>1, LenProperties, ElementOfSeq, EmptySeq

LEMMA LayersNext ==
  ASSUME TypeOK, layers' \in [1 .. Len(layers) -> Layer]
  PROVE  /\ layers' \in Seq(Layer) /\ Len(layers') = Len(layers)
         /\ layers' = <<>> <=> layers = <<>>
<1>1. Len(layers) \in Nat /\ (layers = <<>> <=> Len(layers) = 0)
  BY LayersAre
<1>2. layers' \in Seq(Layer) /\ Len(layers') = Len(layers)
  BY <1>1, SeqOf
<1>3. layers' = <<>> <=> Len(layers') = 0
  BY <1>2, EmptySeq
<1>4. QED
  BY <1>1, <1>2, <1>3

(* Where no byte moves, every byte is still accounted for. *)
LEMMA StillAccounted ==
  ASSUME IInv, layers' \in [1 .. Len(layers) -> Layer],
         \A j \in 1 .. Len(layers) :
           /\ layers'[j].produced = layers[j].produced
           /\ layers'[j].eaten = layers[j].eaten /\ layers'[j].input = layers[j].input,
         UNCHANGED <<total, wire, input, delivered>>,
         pc' = "refill" => body' /\ input = 0
  PROVE  NothingOverwritten'
<1>1. TypeOK /\ NothingOverwritten
  BY DEF IInv
<1>2. Len(layers) \in Nat /\ (layers = <<>> <=> Len(layers) = 0)
  BY <1>1, LayersAre
<1>3. Len(layers') = Len(layers) /\ (layers' = <<>> <=> layers = <<>>)
  BY <1>1, LayersNext
<1>4. ASSUME NEW j \in 2 .. Len(layers)
      PROVE  layers'[j - 1].produced = layers'[j].eaten + layers'[j].input
  <2>1. j \in 1 .. Len(layers) /\ j - 1 \in 1 .. Len(layers)
    BY <1>2
  <2>2. layers[j - 1].produced = layers[j].eaten + layers[j].input
    BY <1>1 DEF NothingOverwritten
  <2>3. QED
    BY <2>1, <2>2
<1>5. ASSUME layers # <<>>
      PROVE  total' = wire' + input' + layers'[1].eaten /\ delivered' = layers'[Len(layers)].produced
  <2>1. 1 \in 1 .. Len(layers) /\ Len(layers) \in 1 .. Len(layers)
    BY <1>2, <1>5
  <2>2. total = wire + input + layers[1].eaten /\ delivered = layers[Len(layers)].produced
    BY <1>1, <1>5 DEF NothingOverwritten
  <2>3. QED
    BY <2>1, <2>2
<1>6. layers = <<>> => total' = wire' + input' + delivered'
  BY <1>1 DEF NothingOverwritten
<1>7. QED
  BY <1>3, <1>4, <1>5, <1>6 DEF NothingOverwritten

LEMMA ChainHolds ==
  ASSUME TypeOK, NEW eof \in BOOLEAN, Round(eof), layers' \in [1 .. Len(layers) -> Layer],
         input' = input, PassedChain(layers', eof)
  PROVE  \A j \in 1 .. Len(layers') : CodecInv(j)' /\ ChainInv(j)'
<1>1. Len(layers') = Len(layers) /\ limit' = limit /\ eof = ~body'
  BY LayersNext DEF Round
<1>2. ASSUME NEW j \in 1 .. Len(layers)
      PROVE  CodecInv(j)' /\ ChainInv(j)'
  <2>1. TooLarge(layers'[j].produced) <=> TooLarge(layers[j].produced)'
    BY <1>1 DEF TooLarge
  <2>2. CodecInv(j)'
    BY <1>1, <2>1 DEF PassedChain, CodecInv, TooLarge, Held
  <2>3. ChainInv(j)'
    BY <1>1 DEF PassedChain, ChainInv
  <2>4. QED
    BY <2>2, <2>3
<1>3. QED
  BY <1>1, <1>2

(* A layer that has ended is given more. *)
LEMMA TrailingStep ==
  ASSUME IInv, NEW eof \in BOOLEAN, Round(eof), layers # <<>>,
         NEW i \in 1 .. Len(layers), \A j \in 1 .. Len(layers) : j > i => ~Trailing(j),
         Fail("trailing", i), layers' = Passed(i, eof), UNCHANGED <<input, delivered>>
  PROVE  IInv'
<1>1. TypeOK /\ ReadInv /\ Len(layers) \in Nat /\ i \in Nat
  BY LayersAre DEF IInv
<1>2. /\ layers' \in [1 .. Len(layers) -> Layer]
      /\ \A j \in 1 .. Len(layers) : Restated(layers'[j], layers[j])
  BY <1>1, PassedFacts
<1>3. layers' \in Seq(Layer) /\ Len(layers') = Len(layers) /\ layers' # <<>>
  BY <1>1, <1>2, LayersNext
<1>4. pc' = "failed" /\ failure' = [kind |-> "trailing", layer |-> i]
  BY DEF Fail
<1>5. TypeOK'
  <2>1. failure' \in [kind : Kinds, layer : Nat]
    BY <1>1, <1>4 DEF Kinds
  <2>2. QED
    BY <1>1, <1>3, <1>4, <2>1 DEF TypeOK, Round
<1>6. ReadInv'
  BY <1>1, <1>3, <1>4 DEF ReadInv, Round
<1>7. \A j \in 1 .. Len(layers') : CodecInv(j)' /\ ChainInv(j)'
  <2>1. PassedChain(layers', eof)
    BY <1>1, PassKeepsChain
  <2>2. QED
    BY <1>1, <1>2, <2>1, ChainHolds
<1>8. NothingOverwritten'
  <2>1. \A j \in 1 .. Len(layers) :
           /\ layers'[j].produced = layers[j].produced
           /\ layers'[j].eaten = layers[j].eaten /\ layers'[j].input = layers[j].input
    BY <1>2 DEF Restated
  <2>2. UNCHANGED <<total, wire, input, delivered>>
    BY DEF Round
  <2>3. QED
    BY <1>2, <1>4, <2>1, <2>2, StillAccounted
<1>9. NoFalseFailure'
  BY <1>4 DEF NoFalseFailure
<1>10. QED
  BY <1>5, <1>6, <1>7, <1>8, <1>9 DEF IInv

(* Below the layer at which advance stops no bytes wait: the last layer that *)
(* has some could run, or fails.                                             *)
LEMMA NothingWaits ==
  ASSUME IInv, NEW stop \in Nat, NEW eof,
         \A j \in 1 .. Len(layers) : j > stop => ~Trailing(j) /\ ~Runs(j, eof)
  PROVE  \A j \in 1 .. Len(layers) : j > stop => Available(j) = 0
<1> DEFINE Waits == {j \in 1 .. Len(layers) : j > stop /\ Available(j) > 0}
<1>1. /\ TypeOK /\ Len(layers) \in Nat
      /\ \A j \in 1 .. Len(layers) : layers[j] \in Layer /\ Available(j) \in Nat
  BY LayersAre DEF IInv, TypeOK, Available, Layer
<1>2. SUFFICES ASSUME Waits # {} PROVE FALSE
  <2>1. SUFFICES ASSUME NEW j \in 1 .. Len(layers), j > stop, Available(j) # 0 PROVE Waits # {}
    BY <1>2
  <2>2. Available(j) > 0
    BY <1>1, <2>1
  <2>3. QED
    BY <2>1, <2>2
<1>3. PICK i \in Waits : \A j \in Waits : j <= i
  BY <1>1, <1>2, GreatestExists
<1>4. i \in 1 .. Len(layers) /\ i > stop /\ Available(i) > 0 /\ layers[i] \in Layer
  BY <1>1, <1>3
<1>5. SlotFree(i)
  <2>1. SUFFICES ASSUME i < Len(layers) PROVE layers[i + 1].input = 0
    BY DEF SlotFree
  <2>2. i + 1 \in 1 .. Len(layers) /\ i + 1 # 1 /\ i + 1 > stop /\ ~(i + 1 <= i)
    BY <1>1, <1>4, <2>1
  <2>3. ~(Available(i + 1) > 0)
    BY <1>3, <2>2
  <2>4. layers[i + 1].input \in Nat
    BY <1>1, <2>2 DEF Layer
  <2>5. QED
    BY <2>2, <2>3, <2>4 DEF Available
<1>6. layers[i].state \notin {"ready", "needsInput"}
  BY <1>4, <1>5 DEF Runs
<1>7. layers[i].state # "ended"
  BY <1>4 DEF Trailing
<1>8. layers[i].state = "finished" /\ ChainInv(i)
  BY <1>4, <1>6, <1>7 DEF Layer, IInv
<1>9. Available(i) = 0
  BY <1>8 DEF ChainInv, Available
<1>10. QED
  BY <1>4, <1>9

(* No layer can run: the end of the body is passed on, or more is asked for. *)
LEMMA RestStep ==
  ASSUME IInv, NEW eof \in BOOLEAN, Round(eof), layers # <<>>,
         \A j \in 1 .. Len(layers) : ~Trailing(j) /\ ~Runs(j, eof),
         layers' = Passed(0, eof),
         pc' = Rests(\A j \in 1 .. Len(layers) : layers'[j].state = "finished", eof),
         UNCHANGED <<input, delivered, failure>>
  PROVE  IInv'
<1>1. /\ TypeOK /\ ReadInv /\ NothingOverwritten /\ NoFalseFailure
      /\ Len(layers) \in Nat /\ 0 \in Nat /\ failure = NoFailure
      /\ 1 \in 1 .. Len(layers)
  BY LayersAre DEF IInv, ReadInv, Round
<1>2. /\ layers' \in [1 .. Len(layers) -> Layer]
      /\ \A j \in 1 .. Len(layers) : Restated(layers'[j], layers[j])
  BY <1>1, PassedFacts
<1>3. layers' \in Seq(Layer) /\ Len(layers') = Len(layers) /\ layers' # <<>>
  BY <1>1, <1>2, LayersNext
<1>4. PassedChain(layers', eof)
  BY <1>1, PassKeepsChain
<1>5. input = 0
  <2>1. \A j \in 1 .. Len(layers) : j > 0 => ~Trailing(j) /\ ~Runs(j, eof)
    OBVIOUS
  <2>2. \A j \in 1 .. Len(layers) : j > 0 => Available(j) = 0
    BY <1>1, <2>1, NothingWaits
  <2>3. Available(1) = 0
    BY <1>1, <2>2
  <2>4. QED
    BY <2>3 DEF Available
<1>6. /\ pc' \in {"finished", "step", "refill"}
      /\ pc' = "finished" => \A j \in 1 .. Len(layers) : layers'[j].state = "finished"
      /\ pc' = "refill" => ~eof
  BY DEF Rests
<1>7. TypeOK'
  BY <1>1, <1>3, <1>6 DEF TypeOK, Round
<1>8. ReadInv'
  <2>1. ASSUME pc' = "finished" PROVE input = 0 /\ eof
    <3>1. layers'[1].state = "finished"
      BY <1>1, <1>6, <2>1
    <3>2. QED
      BY <1>1, <1>4, <3>1 DEF PassedChain
  <2>2. QED
    BY <1>1, <1>3, <1>6, <2>1 DEF ReadInv, Round
<1>9. \A j \in 1 .. Len(layers') : CodecInv(j)' /\ ChainInv(j)'
  BY <1>1, <1>2, <1>4, ChainHolds
<1>10. NothingOverwritten'
  <2>1. \A j \in 1 .. Len(layers) :
           /\ layers'[j].produced = layers[j].produced
           /\ layers'[j].eaten = layers[j].eaten /\ layers'[j].input = layers[j].input
    BY <1>2 DEF Restated
  <2>2. UNCHANGED <<total, wire, input, delivered>>
    BY DEF Round
  <2>3. pc' = "refill" => body'
    BY <1>6 DEF Round
  <2>4. QED
    BY <1>2, <1>5, <2>1, <2>2, <2>3, StillAccounted
<1>11. NoFalseFailure'
  BY <1>1 DEF NoFalseFailure, NoFailure
<1>12. QED
  BY <1>7, <1>8, <1>9, <1>10, <1>11 DEF IInv

(* What the layer that runs is offered, and what comes of it. *)
LEMMA CapacityIs ==
  ASSUME TypeOK, NEW l \in Layer, ~TooLarge(l.produced)
  PROVE  Capacity(l) \in Nat \ {0}
<1>1. OutputSize \in Nat \ {0} /\ NoLimit \notin Nat /\ l.produced \in Nat
  BY DecoderAssumption DEF Layer
<1>2. CASE limit = NoLimit
  BY <1>1, <1>2 DEF Capacity
<1>3. CASE limit # NoLimit
  <2>1. limit \in Nat /\ l.produced <= limit
    BY <1>1, <1>3 DEF TypeOK, TooLarge
  <2>2. limit - l.produced + 1 \in Nat \ {0}
    BY <1>1, <2>1
  <2>3. QED
    BY <1>1, <1>3, <2>2 DEF Capacity, Least
<1>4. QED
  BY <1>2, <1>3

LEMMA AvailableIs ==
  ASSUME TypeOK, NEW i \in 1 .. Len(layers)
  PROVE  /\ Available(i) \in Nat
         /\ Least(Available(i), InputSize) \in Nat
         /\ Least(Available(i), InputSize) <= Available(i)
<1>1. input \in Nat /\ layers[i].input \in Nat /\ InputSize \in Nat
  BY LayersAre, DecoderAssumption DEF TypeOK, Layer
<1>2. Available(i) \in Nat
  BY <1>1 DEF Available
<1>3. QED
  BY <1>1, <1>2, LeastIs

LEMMA RanResult ==
  ASSUME IInv, NEW eof \in BOOLEAN, Round(eof), NEW i \in 1 .. Len(layers), Runs(i, eof),
         NEW r \in Codec(layers[i], Least(Available(i), InputSize), TellsEof(i, eof),
                         Capacity(layers[i]))
  PROVE  CodecResult(layers[i], Least(Available(i), InputSize), TellsEof(i, eof),
                     Capacity(layers[i]), r)
<1>1. TypeOK /\ CodecInv(i) /\ pc # "failed" /\ layers[i] \in Layer
  BY LayersAre DEF IInv, Round
<1>2. TellsEof(i, eof) \in BOOLEAN
  BY DEF TellsEof
<1>3. Capacity(layers[i]) \in Nat \ {0}
  BY <1>1, CapacityIs DEF CodecInv
<1>4. Least(Available(i), InputSize) \in Nat
  BY <1>1, AvailableIs
<1>5. /\ layers[i].produced <= layers[i].made
      /\ layers[i].coding = "gzip" /\ ~layers[i].flush => Held(layers[i]) = 0
  BY <1>1 DEF CodecInv
<1>6. QED
  BY <1>1, <1>2, <1>3, <1>4, <1>5, CodecIs

(* The codec fails, or its layer becomes too large. *)
LEMMA FailStep ==
  ASSUME IInv, NEW eof \in BOOLEAN, Round(eof), layers # <<>>,
         NEW i \in 1 .. Len(layers), \A j \in 1 .. Len(layers) : j > i => ~Trailing(j),
         Runs(i, eof),
         NEW r, CodecResult(layers[i], Least(Available(i), InputSize), TellsEof(i, eof),
                            Capacity(layers[i]), r),
         r.status \in Errors \/ TooLarge(layers[i].produced + r.produced),
         Fail(IF r.status \in Errors THEN r.status ELSE "tooLarge", i),
         layers' = [Passed(i, eof) EXCEPT ![i].made = @ + r.gained],
         UNCHANGED <<input, delivered>>
  PROVE  IInv'
<1> DEFINE p == Passed(i, eof)
<1>1. TypeOK /\ ReadInv /\ Len(layers) \in Nat /\ i \in Nat /\ layers[i] \in Layer
  BY LayersAre DEF IInv
<1>2. /\ p \in [1 .. Len(layers) -> Layer]
      /\ \A j \in 1 .. Len(layers) :
              /\ Restated(p[j], layers[j])
              /\ j <= i => p[j] = layers[j]
  BY <1>1, PassedFacts
<1>3. PassedChain(p, eof)
  BY <1>1, PassKeepsChain
<1> HIDE DEF p
<1>4. r.gained \in Nat /\ r.produced \in Nat /\ r.produced <= Held(layers[i]) + r.gained
  <2>1. Capacity(layers[i]) \in Nat
    BY <1>1, CapacityIs DEF IInv, CodecInv
  <2>2. QED
    BY <2>1 DEF CodecResult
<1>5. layers'[i] = [layers[i] EXCEPT !.made = @ + r.gained]
  <2>1. p[i] = layers[i]
    BY <1>1, <1>2
  <2>2. QED
    BY <1>2, <2>1 DEF p
<1>6. \A j \in 1 .. Len(layers) : j # i => layers'[j] = p[j]
  BY <1>2 DEF p
<1>7. /\ layers'[i] \in Layer /\ layers'[i].made = layers[i].made + r.gained
      /\ layers'[i].state = layers[i].state /\ layers'[i].input = layers[i].input
      /\ layers'[i].produced = layers[i].produced /\ layers'[i].eaten = layers[i].eaten
  <2>1. layers[i].made + r.gained \in Nat
    BY <1>1, <1>4 DEF Layer
  <2>2. QED
    BY <1>1, <1>5, <2>1 DEF Layer
<1>8. layers' \in [1 .. Len(layers) -> Layer]
  <2>1. layers' = [p EXCEPT ![i].made = @ + r.gained]
    BY DEF p
  <2>2. DOMAIN layers' = 1 .. Len(layers) /\ layers' = [j \in 1 .. Len(layers) |-> layers'[j]]
    BY <1>2, <2>1
  <2>3. \A j \in 1 .. Len(layers) : layers'[j] \in Layer
    BY <1>2, <1>6, <1>7
  <2>4. QED
    BY <2>2, <2>3
<1>9. layers' \in Seq(Layer) /\ Len(layers') = Len(layers) /\ layers' # <<>>
  BY <1>1, <1>8, LayersNext
<1>10. /\ pc' = "failed"
       /\ failure' = [kind |-> IF r.status \in Errors THEN r.status ELSE "tooLarge", layer |-> i]
  BY DEF Fail
<1>11. TypeOK'
  <2>1. r.status \in Kinds \/ r.status \notin Errors
    BY DEF Errors, Kinds
  <2>2. failure' \in [kind : Kinds, layer : Nat]
    BY <1>1, <1>10, <2>1 DEF Kinds
  <2>3. QED
    BY <1>1, <1>9, <1>10, <2>2 DEF TypeOK, Round
<1>12. ReadInv'
  BY <1>1, <1>9, <1>10 DEF ReadInv, Round
<1>13. ASSUME NEW j \in 1 .. Len(layers) PROVE CodecInv(j)' /\ ChainInv(j)'
  <2>1. CASE j # i
    <3>1. layers'[j] = p[j]
      BY <1>6, <2>1
    <3>2. CodecInv(j)'
      BY <1>3, <1>10, <3>1 DEF PassedChain, CodecInv, TooLarge, Held, Round
    <3>3. j > 1 /\ p[j - 1].state = "finished" => layers'[j - 1].state = "finished"
      <4>1. SUFFICES ASSUME j > 1, p[j - 1].state = "finished"
                     PROVE  layers'[j - 1].state = "finished"
        OBVIOUS
      <4>2. j - 1 \in 1 .. Len(layers)
        BY <1>1, <4>1
      <4>3. p[i].state # "finished"
        BY <1>1, <1>2 DEF Runs
      <4>4. QED
        BY <1>6, <4>1, <4>2, <4>3
    <3>4. ChainInv(j)'
      BY <1>3, <3>1, <3>3 DEF PassedChain, ChainInv, Round
    <3>5. QED
      BY <3>2, <3>4
  <2>2. CASE j = i
    <3>1. layers[i].state \in {"ready", "needsInput"} /\ CodecInv(i) /\ ChainInv(i)
      BY DEF Runs, IInv
    <3>2. layers[i].produced \in Nat /\ layers[i].made \in Nat /\ layers[i].produced <= layers[i].made
      BY <1>1, <3>1 DEF Layer, CodecInv
    <3>3. layers'[i].produced <= layers'[i].made
      BY <1>4, <1>7, <3>2
    <3>4. CodecInv(j)'
      BY <1>7, <1>10, <2>2, <3>1, <3>3 DEF CodecInv, TooLarge, Round
    <3>5. ChainInv(j)'
      BY <1>7, <2>2, <3>1 DEF ChainInv
    <3>6. QED
      BY <3>4, <3>5
  <2>3. QED
    BY <2>1, <2>2
<1>14. NothingOverwritten'
  <2>1. \A j \in 1 .. Len(layers) :
           /\ layers'[j].produced = layers[j].produced
           /\ layers'[j].eaten = layers[j].eaten /\ layers'[j].input = layers[j].input
    BY <1>2, <1>6, <1>7 DEF Restated
  <2>2. UNCHANGED <<total, wire, input, delivered>>
    BY DEF Round
  <2>3. QED
    BY <1>8, <1>10, <2>1, <2>2, StillAccounted
<1>15. NoFalseFailure'
  <2>1. failure'.layer = i /\ failure'.kind = IF r.status \in Errors THEN r.status ELSE "tooLarge"
    BY <1>10
  <2>2. failure'.kind # "noProgress"
    BY <2>1 DEF CodecResult
  <2>3. failure'.kind = "truncated" => UpstreamEof(i, ~body)' /\ (Available(i) <= InputSize)'
    <3>1. SUFFICES ASSUME failure'.kind = "truncated"
                   PROVE  UpstreamEof(i, ~body)' /\ (Available(i) <= InputSize)'
      OBVIOUS
    <3>2. TellsEof(i, eof)
      BY <2>1, <3>1 DEF CodecResult
    <3>3. Available(i)' = Available(i)
      BY <1>7 DEF Available
    <3>4. i # 1 => layers'[i - 1] = layers[i - 1]
      <4>1. SUFFICES ASSUME i # 1 PROVE layers'[i - 1] = layers[i - 1]
        OBVIOUS
      <4>2. i - 1 \in 1 .. Len(layers) /\ i - 1 # i /\ i - 1 <= i
        BY <1>1, <4>1
      <4>3. QED
        BY <1>2, <1>6, <4>2
    <3>5. UpstreamEof(i, ~body)' <=> UpstreamEof(i, eof)
      BY <3>4 DEF UpstreamEof, Round
    <3>6. QED
      BY <3>2, <3>3, <3>5 DEF TellsEof
  <2>4. failure'.kind = "tooLarge" => layers'[i].made > limit'
    <3>1. SUFFICES ASSUME failure'.kind = "tooLarge" PROVE layers'[i].made > limit
      BY DEF Round
    <3>2. TooLarge(layers[i].produced + r.produced)
      BY <2>1, <3>1 DEF CodecResult
    <3>3. limit \in Nat /\ layers[i].produced + r.produced > limit
      BY <1>1, <3>2 DEF TooLarge, TypeOK
    <3>4. layers[i].made \in Nat /\ layers[i].produced \in Nat
      BY <1>1 DEF Layer
    <3>5. r.produced <= layers[i].made - layers[i].produced + r.gained
      BY <1>4 DEF Held
    <3>6. layers[i].produced + r.produced <= layers[i].made + r.gained
      BY <1>4, <3>4, <3>5
    <3>7. QED
      BY <1>4, <1>7, <3>3, <3>4, <3>6
  <2>5. QED
    BY <2>1, <2>2, <2>3, <2>4 DEF NoFalseFailure
<1>16. QED
  BY <1>9, <1>11, <1>12, <1>13, <1>14, <1>15 DEF IInv

(* The counts of a layer after its codec was given some bytes and handed     *)
(* some out.                                                                 *)
LEMMA RanCounts ==
  ASSUME NEW l \in Layer, l.produced <= l.made, NEW r,
         r.gained \in Nat, r.produced \in Nat, r.consumed \in Nat,
         r.produced <= Held(l) + r.gained
  PROVE  /\ l.produced + r.produced \in Nat /\ l.made + r.gained \in Nat
         /\ l.eaten + r.consumed \in Nat
         /\ l.produced + r.produced <= l.made + r.gained
         /\ Held(l) + r.gained = r.produced => (l.made + r.gained) - (l.produced + r.produced) = 0
<1>1. l.produced \in Nat /\ l.made \in Nat /\ l.eaten \in Nat
  BY DEF Layer
<1>2. r.produced <= (l.made - l.produced) + r.gained
  BY DEF Held
<1>3. l.produced + r.produced <= l.made + r.gained
  BY <1>1, <1>2
<1>4. Held(l) + r.gained = r.produced => (l.made + r.gained) - (l.produced + r.produced) = 0
  BY <1>1 DEF Held
<1>5. QED
  BY <1>1, <1>3, <1>4

(* The layer takes what it has consumed out of its slot, and what it has     *)
(* decoded goes into the free slot of the next one, or to the caller.        *)
LEMMA RunStep ==
  ASSUME IInv, NEW eof \in BOOLEAN, Round(eof), layers # <<>>,
         NEW i \in 1 .. Len(layers), \A j \in 1 .. Len(layers) : j > i => ~Trailing(j),
         Runs(i, eof),
         NEW r, CodecResult(layers[i], Least(Available(i), InputSize), TellsEof(i, eof),
                            Capacity(layers[i]), r),
         r.status \notin Errors, ~TooLarge(layers[i].produced + r.produced),
         layers' =
           [j \in 1 .. Len(layers) |->
              IF j = i
              THEN [layers[i] EXCEPT !.produced = @ + r.produced, !.made = @ + r.gained,
                                     !.eaten = @ + r.consumed, !.state = r.status,
                                     !.flush = r.flush,
                                     !.input = IF i = 1 THEN 0 ELSE @ - r.consumed]
              ELSE IF j = i + 1 /\ r.produced # 0
              THEN [Passed(i, eof)[j] EXCEPT !.input = r.produced]
              ELSE Passed(i, eof)[j]],
         input' = IF i = 1 THEN input - r.consumed ELSE input,
         delivered' = IF i = Len(layers) THEN delivered + r.produced ELSE delivered,
         UNCHANGED <<failure, pc>>
  PROVE  IInv'
<1> DEFINE p == Passed(i, eof)
           l == layers[i]
<1>1. /\ TypeOK /\ ReadInv /\ NothingOverwritten /\ CodecInv(i) /\ ChainInv(i) /\ pc = "step"
      /\ failure = NoFailure /\ Len(layers) \in Nat /\ i \in Nat /\ layers[i] \in Layer
  BY LayersAre DEF IInv, ReadInv, Round
<1>2. /\ p \in [1 .. Len(layers) -> Layer]
      /\ \A j \in 1 .. Len(layers) : Restated(p[j], layers[j])
      /\ p[i] = layers[i]
  BY <1>1, PassedFacts
<1>3. PassedChain(p, eof)
  BY <1>1, PassKeepsChain
<1>4. l.state \in {"ready", "needsInput"} /\ SlotFree(i)
  BY DEF Runs
<1>5. /\ r.gained \in Nat /\ r.produced \in Nat /\ r.consumed \in Nat
      /\ r.consumed <= Available(i)
      /\ r.produced <= Held(l) + r.gained
      /\ r.status \in {"ready", "needsInput", "ended"} /\ r.flush \in BOOLEAN
      /\ r.status = "ended" => Held(l) + r.gained = r.produced
      /\ l.coding = "gzip" /\ ~r.flush => Held(l) + r.gained = r.produced
  <2>1. Capacity(l) \in Nat
    BY <1>1, CapacityIs DEF CodecInv
  <2>2. Available(i) \in Nat /\ Least(Available(i), InputSize) \in Nat
        /\ Least(Available(i), InputSize) <= Available(i)
    BY <1>1, AvailableIs
  <2>3. r.consumed \in 0 .. Least(Available(i), InputSize) /\ r.produced \in 0 .. Capacity(l)
    BY DEF CodecResult
  <2>4. r.consumed \in Nat /\ r.consumed <= Available(i) /\ r.produced \in Nat
    BY <2>1, <2>2, <2>3
  <2>5. QED
    BY <2>4 DEF CodecResult, Errors
<1>6. /\ l.produced \in Nat /\ l.made \in Nat /\ l.eaten \in Nat /\ l.input \in Nat
      /\ input \in Nat /\ delivered \in Nat /\ l.produced <= l.made
      /\ Held(l) = l.made - l.produced
  BY <1>1 DEF Layer, TypeOK, CodecInv, Held
<1>7. /\ layers'[i].produced = l.produced + r.produced
      /\ layers'[i].made = l.made + r.gained
      /\ layers'[i].eaten = l.eaten + r.consumed
      /\ layers'[i].state = r.status /\ layers'[i].flush = r.flush
      /\ layers'[i].input = IF i = 1 THEN 0 ELSE l.input - r.consumed
      /\ layers'[i].coding = l.coding
      /\ layers'[i] \in Layer
  <2>1. layers'[i] = [l EXCEPT !.produced = @ + r.produced, !.made = @ + r.gained,
                               !.eaten = @ + r.consumed, !.state = r.status, !.flush = r.flush,
                               !.input = IF i = 1 THEN 0 ELSE @ - r.consumed]
    OBVIOUS
  <2>2. i # 1 => l.input - r.consumed \in Nat
    BY <1>5, <1>6 DEF Available
  <2> HIDE DEF l
  <2>3. l \in Layer
    BY <1>1 DEF l
  <2>4. l.produced + r.produced \in Nat /\ l.made + r.gained \in Nat /\ l.eaten + r.consumed \in Nat
    BY <1>5, <1>6, <2>3, RanCounts
  <2>5. QED
    BY <1>5, <2>1, <2>2, <2>3, <2>4 DEF Layer
<1>8. ASSUME NEW j \in 1 .. Len(layers), j # i
      PROVE  /\ layers'[j] \in Layer
             /\ layers'[j].produced = layers[j].produced /\ layers'[j].made = layers[j].made
             /\ layers'[j].eaten = layers[j].eaten /\ layers'[j].coding = layers[j].coding
             /\ layers'[j].flush = layers[j].flush /\ layers'[j].state = p[j].state
             /\ layers'[j].input = IF j = i + 1 /\ r.produced # 0 THEN r.produced
                                   ELSE layers[j].input
  <2>1. Restated(p[j], layers[j]) /\ p[j] \in Layer
    BY <1>2
  <2> HIDE DEF p, l
  <2>2. CASE j = i + 1 /\ r.produced # 0
    <3>1. layers'[j] = [p[j] EXCEPT !.input = r.produced]
      BY <1>8, <2>2 DEF p
    <3>2. QED
      BY <1>5, <2>1, <2>2, <3>1 DEF Restated, Layer
  <2>3. CASE ~(j = i + 1 /\ r.produced # 0)
    <3>1. layers'[j] = p[j]
      BY <1>8, <2>3 DEF p
    <3>2. QED
      BY <2>1, <2>3, <3>1 DEF Restated
  <2>4. QED
    BY <2>2, <2>3
<1>9. layers' \in [1 .. Len(layers) -> Layer]
  <2>1. layers' = [j \in 1 .. Len(layers) |-> layers'[j]]
    OBVIOUS
  <2>2. \A j \in 1 .. Len(layers) : layers'[j] \in Layer
    BY <1>7, <1>8
  <2>3. QED
    BY <2>1, <2>2
<1>10. layers' \in Seq(Layer) /\ Len(layers') = Len(layers) /\ layers' # <<>>
  BY <1>1, <1>9, LayersNext
<1> HIDE DEF p, l
<1>11. input' \in Nat /\ delivered' \in Nat
  BY <1>5, <1>6 DEF Available
<1>12. TypeOK'
  BY <1>1, <1>10, <1>11 DEF TypeOK, Round
<1>13. ReadInv'
  BY <1>1, <1>10 DEF ReadInv, Round
<1>14. p[i].state # "finished" /\ layers'[i].state # "finished"
  BY <1>2, <1>4, <1>5, <1>7 DEF l
<1>15. ASSUME NEW j \in 1 .. Len(layers) PROVE CodecInv(j)'
  <2>1. CASE j = i
    <3>0. /\ l.produced + r.produced <= l.made + r.gained
          /\ Held(l) + r.gained = r.produced => (l.made + r.gained) - (l.produced + r.produced) = 0
      BY <1>1, <1>5, <1>6, RanCounts DEF l
    <3>1. layers'[i].produced <= layers'[i].made
      BY <1>7, <3>0
    <3>2. Held(l) + r.gained = r.produced => layers'[i].made - layers'[i].produced = 0
      BY <1>7, <3>0
    <3>3. ~TooLarge(layers[i].produced)'
      BY <1>7 DEF TooLarge, Round, l
    <3>4. layers'[i].coding = "gzip" /\ ~layers'[i].flush => layers'[i].made - layers'[i].produced = 0
      BY <1>5, <1>7, <3>2
    <3>5. layers'[i].state \in {"ended", "finished"} => layers'[i].made - layers'[i].produced = 0
      BY <1>5, <1>7, <1>14, <3>2
    <3>6. QED
      BY <2>1, <3>1, <3>3, <3>4, <3>5 DEF CodecInv, Held
  <2>2. CASE j # i
    <3>1. Restated(p[j], layers[j])
      BY <1>2
    <3>2. /\ layers'[j].produced = p[j].produced /\ layers'[j].made = p[j].made
          /\ layers'[j].coding = p[j].coding /\ layers'[j].flush = p[j].flush
          /\ layers'[j].state = p[j].state
      BY <1>8, <2>2, <3>1 DEF Restated
    <3>3. /\ p[j].produced <= p[j].made /\ ~TooLarge(p[j].produced)
          /\ p[j].coding = "gzip" /\ ~p[j].flush => p[j].made - p[j].produced = 0
          /\ p[j].state \in {"ended", "finished"} => p[j].made - p[j].produced = 0
      BY <1>3 DEF PassedChain, Held
    <3>4. ~TooLarge(layers[j].produced)'
      BY <3>2, <3>3 DEF TooLarge, Round
    <3>5. QED
      BY <3>2, <3>3, <3>4 DEF CodecInv, Held
  <2>3. QED
    BY <2>1, <2>2
<1>16. ASSUME NEW j \in 1 .. Len(layers) PROVE ChainInv(j)'
  <2>1. CASE j = i
    BY <1>7, <1>14, <2>1 DEF ChainInv
  <2>2. CASE j # i
    <3>1. Restated(p[j], layers[j])
      BY <1>2
    <3>2. j = 1 => layers'[j].input = 0
      <4>1. j = 1 => j # i + 1 /\ layers[j].input = 0
        BY <1>1, <1>3, <3>1 DEF PassedChain, Restated
      <4>2. QED
        BY <1>8, <2>2, <4>1
    <3>3. ASSUME p[j].state = "finished"
          PROVE  /\ layers'[j].input = 0
                 /\ j = 1 => input' = 0 /\ ~body'
                 /\ j > 1 => layers'[j - 1].state = "finished"
      <4>1. /\ layers[j].input = 0
            /\ j = 1 => input = 0 /\ eof
            /\ j > 1 => p[j - 1].state = "finished"
        BY <1>3, <3>1, <3>3 DEF PassedChain, Restated
      <4>2. j # i + 1
        BY <1>1, <1>14, <4>1
      <4>3. j > 1 => layers'[j - 1].state = "finished"
        <5>1. SUFFICES ASSUME j > 1 PROVE layers'[j - 1].state = "finished"
          OBVIOUS
        <5>2. j - 1 \in 1 .. Len(layers) /\ j - 1 # i
          BY <1>1, <4>2, <5>1
        <5>3. QED
          BY <1>8, <4>1, <5>1, <5>2
      <4>4. QED
        BY <1>8, <2>2, <4>1, <4>2, <4>3 DEF Round
    <3>4. layers'[j].state = p[j].state
      BY <1>8, <2>2
    <3>5. QED
      BY <3>2, <3>3, <3>4 DEF ChainInv
  <2>3. QED
    BY <2>1, <2>2
<1>17. NothingOverwritten'
  <2>1. ASSUME NEW j \in 2 .. Len(layers)
        PROVE  layers'[j - 1].produced = layers'[j].eaten + layers'[j].input
    <3>1. j \in 1 .. Len(layers) /\ j - 1 \in 1 .. Len(layers) /\ j # 1
      BY <1>1
    <3>2. layers[j - 1].produced = layers[j].eaten + layers[j].input
      BY <1>1 DEF NothingOverwritten
    <3>3. /\ layers[j] \in Layer /\ layers[j - 1] \in Layer
          /\ layers[j].eaten \in Nat /\ layers[j].input \in Nat
      BY <1>1, <3>1, LayersAre DEF Layer
    <3>4. CASE j = i
      <4>0. j - 1 # i
        BY <1>1, <3>4
      <4>1. layers'[j - 1].produced = layers[j - 1].produced
        BY <1>8, <3>1, <4>0
      <4>2. layers'[j].eaten = layers[j].eaten + r.consumed
            /\ layers'[j].input = layers[j].input - r.consumed
        BY <1>7, <3>1, <3>4 DEF l
      <4>3. QED
        BY <1>5, <3>2, <3>3, <4>1, <4>2
    <3>5. CASE j = i + 1
      <4>1. j - 1 = i /\ j # i /\ i < Len(layers)
        BY <1>1, <3>1, <3>5
      <4>2. layers[j].input = 0
        BY <1>4, <3>5, <4>1 DEF SlotFree
      <4>3. layers'[j].eaten = layers[j].eaten /\ layers'[j].input = r.produced
        BY <1>8, <3>1, <3>5, <4>1, <4>2
      <4>4. layers'[j - 1].produced = layers[j - 1].produced + r.produced
        BY <1>7, <4>1 DEF l
      <4>5. QED
        BY <1>5, <3>2, <3>3, <4>2, <4>3, <4>4
    <3>6. CASE j # i /\ j # i + 1
      <4>1. j - 1 # i
        BY <1>1, <3>1, <3>6
      <4>2. layers'[j - 1].produced = layers[j - 1].produced
        BY <1>8, <3>1, <4>1
      <4>3. layers'[j].eaten = layers[j].eaten /\ layers'[j].input = layers[j].input
        BY <1>8, <3>1, <3>6
      <4>4. QED
        BY <3>2, <4>2, <4>3
    <3>7. QED
      BY <3>4, <3>5, <3>6
  <2>2. 1 \in 1 .. Len(layers) /\ Len(layers) \in 1 .. Len(layers)
    BY <1>1
  <2>3. total = wire + input + layers[1].eaten /\ delivered = layers[Len(layers)].produced
    BY <1>1 DEF NothingOverwritten
  <2>4. total' = wire' + input' + layers'[1].eaten
    <3>1. wire \in Nat /\ layers[1].eaten \in Nat
      BY <1>1, <2>2, LayersAre DEF TypeOK, Layer
    <3>2. CASE i = 1
      <4>1. layers'[1].eaten = layers[1].eaten + r.consumed /\ input' = input - r.consumed
        BY <1>7, <3>2 DEF l
      <4>2. QED
        BY <1>5, <1>6, <2>3, <3>1, <4>1 DEF Round
    <3>3. CASE i # 1
      <4>1. layers'[1].eaten = layers[1].eaten /\ input' = input
        BY <1>8, <2>2, <3>3
      <4>2. QED
        BY <2>3, <4>1 DEF Round
    <3>4. QED
      BY <3>2, <3>3
  <2>5. delivered' = layers'[Len(layers)].produced
    BY <1>7, <1>8, <2>2, <2>3 DEF l
  <2>6. QED
    BY <1>1, <1>10, <2>1, <2>4, <2>5 DEF NothingOverwritten
<1>18. NoFalseFailure'
  BY <1>1 DEF NoFalseFailure, NoFailure
<1>19. QED
  BY <1>10, <1>12, <1>13, <1>15, <1>16, <1>17, <1>18 DEF IInv

(* advance with layers. *)
LEMMA AdvanceStep ==
  ASSUME IInv, NEW eof \in BOOLEAN, Round(eof), layers # <<>>, Advance(eof)
  PROVE  IInv'
<1> DEFINE stops == {j \in 1 .. Len(layers) : Trailing(j) \/ Runs(j, eof)}
           i == Max(stops)
<1>1. TypeOK /\ Len(layers) \in Nat
  BY LayersAre DEF IInv
<1>2. ASSUME stops # {}
      PROVE  /\ i \in 1 .. Len(layers) /\ (Trailing(i) \/ Runs(i, eof))
             /\ \A j \in 1 .. Len(layers) : j > i => ~Trailing(j)
  <2>1. stops \subseteq 1 .. Len(layers)
    OBVIOUS
  <2>2. i \in stops /\ \A j \in stops : j <= i
    <3> HIDE DEF stops
    <3>1. QED
      BY <1>1, <1>2, <2>1, MaxIsGreatest
  <2> HIDE DEF i
  <2>3. i \in 1 .. Len(layers) /\ (Trailing(i) \/ Runs(i, eof))
    BY <2>2
  <2>4. ASSUME NEW j \in 1 .. Len(layers), j > i PROVE ~Trailing(j)
    <3>1. ~(j <= i)
      BY <1>1, <2>3, <2>4
    <3>2. QED
      BY <2>2, <3>1
  <2>5. QED
    BY <2>3, <2>4
<1>3. CASE /\ stops # {} /\ Trailing(i)
           /\ Fail("trailing", i) /\ layers' = Passed(i, eof) /\ UNCHANGED <<input, delivered>>
  <2> HIDE DEF i, stops
  <2>1. QED
    BY <1>2, <1>3, TrailingStep
<1>4. CASE stops # {} /\ ~Trailing(i) /\ RunLayer(i, eof)
  <2> HIDE DEF i, stops
  <2>1. /\ i \in 1 .. Len(layers) /\ Runs(i, eof)
        /\ \A j \in 1 .. Len(layers) : j > i => ~Trailing(j)
    BY <1>2, <1>4
  <2>2. PICK r \in Codec(layers[i], Least(Available(i), InputSize), TellsEof(i, eof),
                         Capacity(layers[i])) :
          IF r.status \in Errors \/ TooLarge(layers[i].produced + r.produced)
          THEN /\ Fail(IF r.status \in Errors THEN r.status ELSE "tooLarge", i)
               /\ layers' = [Passed(i, eof) EXCEPT ![i].made = @ + r.gained]
               /\ UNCHANGED <<input, delivered>>
          ELSE /\ layers' =
                    [j \in 1 .. Len(layers) |->
                       IF j = i
                       THEN [layers[i] EXCEPT !.produced = @ + r.produced, !.made = @ + r.gained,
                                              !.eaten = @ + r.consumed, !.state = r.status,
                                              !.flush = r.flush,
                                              !.input = IF i = 1 THEN 0 ELSE @ - r.consumed]
                       ELSE IF j = i + 1 /\ r.produced # 0
                       THEN [Passed(i, eof)[j] EXCEPT !.input = r.produced]
                       ELSE Passed(i, eof)[j]]
               /\ input' = IF i = 1 THEN input - r.consumed ELSE input
               /\ delivered' = IF i = Len(layers) THEN delivered + r.produced ELSE delivered
               /\ UNCHANGED <<failure, pc>>
    BY <1>4 DEF RunLayer
  <2>3. CodecResult(layers[i], Least(Available(i), InputSize), TellsEof(i, eof),
                    Capacity(layers[i]), r)
    BY <2>1, RanResult
  <2>4. CASE r.status \in Errors \/ TooLarge(layers[i].produced + r.produced)
    BY <2>1, <2>2, <2>3, <2>4, FailStep
  <2>5. CASE ~(r.status \in Errors \/ TooLarge(layers[i].produced + r.produced))
    BY <2>1, <2>2, <2>3, <2>5, RunStep
  <2>6. QED
    BY <2>4, <2>5
<1>5. CASE /\ stops = {} /\ layers' = Passed(0, eof)
           /\ pc' = Rests(\A j \in 1 .. Len(layers) : layers'[j].state = "finished", eof)
           /\ UNCHANGED <<input, delivered, failure>>
  <2>1. \A j \in 1 .. Len(layers) : ~Trailing(j) /\ ~Runs(j, eof)
    BY <1>5
  <2>2. pc' = Rests(\A j \in 1 .. Len(layers) : layers'[j].state = "finished", eof)
    BY <1>1, <1>5, PassedFacts, LayersNext
  <2>3. QED
    BY <1>5, <2>1, <2>2, RestStep
<1>6. QED
  BY <1>3, <1>4, <1>5 DEF Advance

(* A body without codings. *)
LEMMA IdentityStep ==
  ASSUME IInv, NEW eof \in BOOLEAN, Round(eof), layers = <<>>, Identity(eof)
  PROVE  IInv'
<1> DEFINE consumed == Least(input, InputSize)
<1>1. /\ TypeOK /\ ReadInv /\ NothingOverwritten /\ NoFalseFailure /\ pc = "step"
      /\ failure = NoFailure /\ input \in Nat /\ delivered \in Nat /\ wire \in Nat
      /\ layers' = <<>> /\ Len(layers) = 0 /\ Len(layers') = 0
  BY LayersAre DEF IInv, ReadInv, Round, TypeOK, Identity
<1>2. /\ consumed \in Nat /\ consumed <= input /\ (consumed = 0 => input = 0)
  BY <1>1, DecoderAssumption DEF Least
<1>3. total = wire + input + delivered
  BY <1>1 DEF NothingOverwritten
<1> HIDE DEF consumed
<1>4. CASE TooLarge(delivered + consumed)
  <2>1. /\ pc' = "failed" /\ failure' = [kind |-> "tooLarge", layer |-> 0]
        /\ UNCHANGED <<input, delivered>>
    BY <1>4 DEF Identity, Fail, consumed
  <2>2. failure' \in [kind : Kinds, layer : Nat]
    BY <2>1 DEF Kinds
  <2>3. TypeOK'
    BY <1>1, <2>1, <2>2 DEF TypeOK, Round
  <2>4. ReadInv'
    BY <1>1, <2>1 DEF ReadInv, Round, TooLarge
  <2>5. NothingOverwritten'
    BY <1>1, <1>3, <2>1 DEF NothingOverwritten, Round
  <2>6. NoFalseFailure'
    BY <2>1 DEF NoFalseFailure
  <2>7. QED
    BY <1>1, <2>3, <2>4, <2>5, <2>6 DEF IInv
<1>5. CASE ~TooLarge(delivered + consumed)
  <2>1. /\ input' = input - consumed /\ delivered' = delivered + consumed
        /\ pc' = IF consumed # 0 THEN "step" ELSE IF eof THEN "finished" ELSE "refill"
        /\ UNCHANGED failure
    BY <1>5 DEF Identity, consumed
  <2>2. input' \in Nat /\ delivered' \in Nat /\ total' = wire' + input' + delivered'
    BY <1>1, <1>2, <1>3, <2>1 DEF Round
  <2>3. pc' \in {"finished", "refill"} => input' = 0
    BY <1>1, <1>2, <2>1
  <2>4. pc' \in {"step", "finished", "refill"} /\ (pc' = "finished" => eof) /\ (pc' = "refill" => ~eof)
    BY <2>1
  <2>5. TypeOK'
    BY <1>1, <2>1, <2>2, <2>4 DEF TypeOK, Round
  <2>6. ReadInv'
    <3>1. ~TooLarge(delivered)'
      BY <1>5, <2>1 DEF TooLarge, Round
    <3>2. (pc = "finished")' => input' = 0 /\ ~body'
      BY <2>3, <2>4 DEF Round
    <3>3. QED
      BY <1>1, <2>1, <2>4, <3>1, <3>2 DEF ReadInv, Round
  <2>7. NothingOverwritten'
    BY <1>1, <2>2, <2>3, <2>4 DEF NothingOverwritten, Round
  <2>8. NoFalseFailure'
    BY <1>1, <2>1 DEF NoFalseFailure, NoFailure
  <2>9. QED
    BY <1>1, <2>5, <2>6, <2>7, <2>8 DEF IInv
<1>6. QED
  BY <1>4, <1>5

LEMMA StepStep ==
  ASSUME IInv, Step
  PROVE  IInv'
<1>1. TypeOK /\ ReadInv
  BY DEF IInv
<1>2. PICK ends \in BOOLEAN :
        /\ ends => wire = 0
        /\ body' = (body /\ ~ends)
        /\ IF layers = <<>> THEN Identity(~body') ELSE Advance(~body')
  BY DEF Step
<1>3. body' \in BOOLEAN /\ (~body => ~body') /\ (~body' => wire = 0)
  BY <1>1, <1>2 DEF TypeOK, ReadInv
<1>4. Round(~body') /\ (~body') \in BOOLEAN
  BY <1>3 DEF Step, Round
<1>5. QED
  BY <1>2, <1>4, IdentityStep, AdvanceStep

(* More is asked for only when the last frame is used up. *)
LEMMA RefillStep ==
  ASSUME IInv, Refill
  PROVE  IInv'
<1>1. /\ TypeOK /\ ReadInv /\ NothingOverwritten /\ NoFalseFailure /\ pc = "refill"
      /\ failure = NoFailure /\ body /\ input = 0 /\ wire \in Nat
      /\ UNCHANGED <<limit, layers, total, delivered>>
  BY DEF IInv, ReadInv, NothingOverwritten, TypeOK, Refill
<1>2. /\ Len(layers) \in Nat /\ \A j \in 1 .. Len(layers) : layers[j] \in Layer
      /\ layers = <<>> <=> Len(layers) = 0
  BY <1>1, LayersAre
<1>3. \A j \in 1 .. Len(layers) : CodecInv(j) /\ ChainInv(j)
  BY DEF IInv
<1>4. \A j \in 1 .. Len(layers) : j = 1 => layers[j].state # "finished"
  BY <1>1, <1>3 DEF ChainInv
<1>5. \A j \in 1 .. Len(layers) : CodecInv(j)' /\ ChainInv(j)'
  <2>1. SUFFICES ASSUME NEW j \in 1 .. Len(layers) PROVE CodecInv(j)' /\ ChainInv(j)'
    OBVIOUS
  <2>2. CodecInv(j)'
    BY <1>1, <1>3 DEF CodecInv, TooLarge, Held
  <2>3. ChainInv(j)'
    BY <1>1, <1>3, <1>4 DEF ChainInv
  <2>4. QED
    BY <2>2, <2>3
<1>6. layers # <<>> => layers[1].eaten \in Nat
  <2>1. layers # <<>> => 1 \in 1 .. Len(layers)
    BY <1>2
  <2>2. QED
    BY <1>2, <2>1 DEF Layer
<1>7. CASE /\ \E n \in 1 .. wire : input' = n /\ wire' = wire - n
           /\ pc' = "step" /\ UNCHANGED <<body, failure>>
  <2>1. input' \in Nat /\ wire' \in Nat /\ wire' + input' = wire + input
    BY <1>1, <1>7
  <2>2. TypeOK'
    BY <1>1, <1>7, <2>1 DEF TypeOK
  <2>3. ReadInv'
    BY <1>1, <1>7 DEF ReadInv, TooLarge
  <2>4. NothingOverwritten'
    BY <1>1, <1>6, <1>7, <2>1 DEF NothingOverwritten, TypeOK
  <2>5. NoFalseFailure'
    BY <1>1, <1>7 DEF NoFalseFailure, NoFailure
  <2>6. QED
    BY <1>1, <1>5, <2>2, <2>3, <2>4, <2>5 DEF IInv
<1>8. CASE wire = 0 /\ body' = FALSE /\ pc' = "step" /\ UNCHANGED <<wire, input, failure>>
  <2>1. TypeOK'
    BY <1>1, <1>8 DEF TypeOK
  <2>2. ReadInv'
    BY <1>1, <1>8 DEF ReadInv, TooLarge
  <2>3. NothingOverwritten'
    BY <1>1, <1>8 DEF NothingOverwritten
  <2>4. NoFalseFailure'
    BY <1>1, <1>8 DEF NoFalseFailure, NoFailure
  <2>5. QED
    BY <1>1, <1>5, <2>1, <2>2, <2>3, <2>4 DEF IInv
<1>9. CASE Fail("transport", 0) /\ UNCHANGED <<wire, input, body>>
  <2>1. pc' = "failed" /\ failure' = [kind |-> "transport", layer |-> 0]
    BY <1>9 DEF Fail
  <2>2. failure' \in [kind : Kinds, layer : Nat]
    BY <2>1 DEF Kinds
  <2>3. TypeOK'
    BY <1>1, <1>9, <2>1, <2>2 DEF TypeOK
  <2>4. ReadInv'
    BY <1>1, <1>9, <2>1 DEF ReadInv, TooLarge
  <2>5. NothingOverwritten'
    BY <1>1, <1>9, <2>1 DEF NothingOverwritten
  <2>6. NoFalseFailure'
    BY <2>1 DEF NoFalseFailure
  <2>7. QED
    BY <1>1, <1>5, <2>3, <2>4, <2>5, <2>6 DEF IInv
<1>10. QED
  BY <1>7, <1>8, <1>9 DEF Refill

LEMMA InitIInv == Init => IInv
<1>1. SUFFICES ASSUME Init PROVE IInv
  OBVIOUS
<1>2. PICK n \in 0 .. MaxItems : \E items \in [1 .. n -> Items] :
        /\ Accepted(items)
        /\ layers = [i \in 1 .. Len(FromHeaders(items)) |-> NewLayer(FromHeaders(items)[i])]
  BY <1>1 DEF Init
<1>3. PICK items \in [1 .. n -> Items] :
        /\ Accepted(items)
        /\ layers = [i \in 1 .. Len(FromHeaders(items)) |-> NewLayer(FromHeaders(items)[i])]
  BY <1>2
<1>4. n \in Nat
  BY DecoderAssumption
<1>5. Len(items) = n
  BY <1>4, SeqOf
<1>6. FromHeaders(items) \in Seq(Codings)
  BY <1>3, <1>4, <1>5, FromHeadersType DEF Accepted
<1>7. PICK m \in Nat : m = Len(FromHeaders(items))
  BY <1>6, LenProperties
<1>8. ASSUME NEW i \in 1 .. m
      PROVE  /\ layers[i] \in Layer
             /\ layers[i].state = "needsInput" /\ layers[i].input = 0 /\ layers[i].produced = 0
             /\ layers[i].made = 0 /\ layers[i].eaten = 0
  <2>1. FromHeaders(items)[i] \in Codings
    BY <1>6, <1>7, ElementOfSeq
  <2>2. layers[i] = NewLayer(FromHeaders(items)[i])
    BY <1>3, <1>7
  <2>3. QED
    BY <2>1, <2>2 DEF NewLayer, Layer
<1>9. layers \in Seq(Layer) /\ Len(layers) = m /\ (layers = <<>> <=> m = 0)
  <2>1. layers = [i \in 1 .. m |-> layers[i]]
    BY <1>3, <1>7
  <2>2. layers \in [1 .. m -> Layer]
    BY <1>8, <2>1
  <2>3. layers \in Seq(Layer) /\ Len(layers) = m
    BY <2>2, SeqOf
  <2>4. QED
    BY <2>3, EmptySeq
<1>10. /\ limit \in Nat \cup {NoLimit} /\ total \in Nat /\ wire = total /\ body = TRUE /\ input = 0
       /\ delivered = 0 /\ failure = NoFailure /\ pc = "step"
  BY <1>1, DecoderAssumption DEF Init
<1>11. TypeOK
  BY <1>9, <1>10 DEF TypeOK, NoFailure, Kinds
<1>12. ~TooLarge(0)
  BY <1>10 DEF TooLarge
<1>13. ReadInv
  BY <1>10, <1>12 DEF ReadInv
<1>14. \A i \in 1 .. Len(layers) : CodecInv(i) /\ ChainInv(i)
  BY <1>8, <1>9, <1>12 DEF CodecInv, ChainInv, Held
<1>15. NothingOverwritten
  <2>1. ASSUME NEW i \in 2 .. m PROVE layers[i - 1].produced = layers[i].eaten + layers[i].input
    <3>1. i \in 1 .. m /\ i - 1 \in 1 .. m
      OBVIOUS
    <3>2. QED
      BY <1>8, <3>1
  <2>2. m # 0 => 1 \in 1 .. m /\ m \in 1 .. m
    OBVIOUS
  <2>3. QED
    BY <1>8, <1>9, <1>10, <2>1, <2>2 DEF NothingOverwritten
<1>16. NoFalseFailure
  BY <1>10 DEF NoFalseFailure, NoFailure
<1>17. QED
  BY <1>11, <1>13, <1>14, <1>15, <1>16 DEF IInv

LEMMA NextIInv == IInv /\ [Next]_vars => IInv'
<1>1. SUFFICES ASSUME IInv, [Next]_vars PROVE IInv'
  OBVIOUS
<1>2. CASE Step
  BY <1>1, <1>2, StepStep
<1>3. CASE Refill
  BY <1>1, <1>3, RefillStep
<1>4. CASE UNCHANGED vars
  BY <1>1, <1>4 DEF vars, IInv, TypeOK, ReadInv, CodecInv, ChainInv, NothingOverwritten,
                    NoFalseFailure, TooLarge, Held, UpstreamEof, Available
<1>5. QED
  BY <1>1, <1>2, <1>3, <1>4 DEF Next

--------------------------------------------------------------------------------
(* The theorems. *)

(* Every reachable state satisfies the invariant. *)
LEMMA Invariance == Spec => []IInv
<1>1. QED
  BY InitIInv, NextIInv, PTL DEF Spec

(* The decoder keeps its types: a slot, an offer and a count never become    *)
(* negative, although advance and run_layer subtract (streaming/mod.rs).     *)
THEOREM TypeCorrect == Spec => []TypeOK
<1>1. IInv => TypeOK
  BY DEF IInv
<1>2. QED
  BY <1>1, Invariance, PTL

(* No byte is overwritten or skipped between the transport, the layers and   *)
(* the caller, and more input is asked for only when the last frame is used  *)
(* up: for any number of layers, any sizes and any limit.                    *)
THEOREM NothingIsOverwritten == Spec => []NothingOverwritten
<1>1. IInv => NothingOverwritten
  BY DEF IInv
<1>2. QED
  BY <1>1, Invariance, PTL

(* A read that reports the end of the body has had all of it, and every      *)
(* layer has found its end and handed out all it decoded.                    *)
THEOREM FinishedIsAlwaysComplete == Spec => []FinishedIsComplete
<1>1. IInv => FinishedIsComplete
  <2>1. SUFFICES ASSUME IInv, pc = "finished" PROVE FinishedIsComplete
    BY DEF FinishedIsComplete
  <2>2. TypeOK /\ ReadInv /\ NothingOverwritten
    BY <2>1 DEF IInv
  <2>3. wire = 0 /\ input = 0 /\ ~body /\ \A i \in 1 .. Len(layers) : layers[i].state = "finished"
    BY <2>1, <2>2 DEF ReadInv
  <2>4. \A i \in 1 .. Len(layers) : layers[i].input = 0 /\ Held(layers[i]) = 0
    BY <2>1, <2>3 DEF IInv, CodecInv, ChainInv
  <2>5. ~TooLarge(delivered)
    <3>1. CASE layers = <<>>
      BY <2>2, <3>1 DEF ReadInv
    <3>2. CASE layers # <<>>
      <4>1. Len(layers) \in 1 .. Len(layers)
        BY <2>2, <3>2, LayersAre
      <4>2. delivered = layers[Len(layers)].produced
        BY <2>2, <3>2 DEF NothingOverwritten
      <4>3. QED
        BY <2>1, <4>1, <4>2 DEF IInv, CodecInv
    <3>3. QED
      BY <3>1, <3>2
  <2>6. QED
    BY <2>3, <2>4, <2>5 DEF FinishedIsComplete
<1>2. QED
  BY <1>1, Invariance, PTL

(* The decoder never blames a codec for want of room or input that it did    *)
(* not give it, nor calls a body truncated or too large that is not.         *)
THEOREM FailureIsNeverFalse == Spec => []NoFalseFailure
<1>1. IInv => NoFalseFailure
  BY DEF IInv
<1>2. QED
  BY <1>1, Invariance, PTL

(* The layer that advance comes to finds the slot behind it free. *)
SlotBehindIsFree ==
  \A eof \in BOOLEAN : \A i \in 1 .. Len(layers) :
    (\A j \in 1 .. Len(layers) : j > i => ~Trailing(j) /\ ~Runs(j, eof)) => SlotFree(i)

(* The check of the next slot in advance never decides anything, because the *)
(* pass goes upwards from the last layer (streaming/mod.rs:227): a layer     *)
(* never waits for the one behind it.                                        *)
THEOREM SlotIsAlwaysFree == Spec => []SlotBehindIsFree
<1>1. IInv => SlotBehindIsFree
  <2>1. SUFFICES ASSUME IInv, NEW eof \in BOOLEAN, NEW i \in 1 .. Len(layers),
                        \A j \in 1 .. Len(layers) : j > i => ~Trailing(j) /\ ~Runs(j, eof),
                        i < Len(layers)
                 PROVE  layers[i + 1].input = 0
    BY DEF SlotBehindIsFree, SlotFree
  <2>2. Len(layers) \in Nat /\ i \in Nat
    BY <2>1, LayersAre DEF IInv
  <2>3. i + 1 \in 1 .. Len(layers) /\ i + 1 > i /\ i + 1 # 1
    BY <2>1, <2>2
  <2>4. \A j \in 1 .. Len(layers) : j > i => Available(j) = 0
    BY <2>1, <2>2, NothingWaits
  <2>5. QED
    BY <2>3, <2>4 DEF Available
<1>2. QED
  BY <1>1, Invariance, PTL

================================================================================
