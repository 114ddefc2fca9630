------------------------- MODULE EventEnvelopeProofs -------------------------
(***************************************************************************)
(* Proofs about EventEnvelope for any integers and any rounding that is    *)
(* exact up to MaxSafe.                                                    *)
(***************************************************************************)
EXTENDS EventEnvelope, TLAPS

Digits(n) == [quoted |-> FALSE, n |-> n]

\* What create signed, for an event that came in an envelope.
SignedSent ==
  origin # "raw" /\ stage # "start" =>
    \A f \in Fields : signature.ints[f] = Digits(sent[f])

FreshIsSent == stage = "start" => envelope.ints = Numbers("bigint")

\* What the consumer signed itself, and what it accepted, is signed as it stands.
SignedAsIs ==
  (stage = "coerced" /\ origin = "raw") \/ stage \in Accepted =>
    signature = Canonical(envelope)

StoredAsIs ==
  stage \in {"stored", "loaded", "refused"} =>
    row = [f \in Fields |-> envelope.ints[f].n]

RawIsAccepted == stage = "dead" => origin # "raw"

EnvelopeInv == /\ TypeOK /\ FreshIsSent /\ SignedSent /\ SignedAsIs /\ StoredAsIs
               /\ RawIsAccepted /\ SafeIntegersReload

-----------------------------------------------------------------------------
(* The conversions                                                         *)

\* A bigint is printed as its digits.
LEMMA BigintText ==
  ASSUME NEW v, v.as = "bigint" PROVE Text(v) = Digits(v.n)
BY DEF Text, Digits

\* The schemas turn whatever was sent into the validated type.
LEMMA ValidateTypes ==
  ASSUME NEW e \in Envelopes PROVE Validate(e) \in Validated
<1>1. \A f \in Fields : e.ints[f] \in Values BY DEF Envelopes
<1>2. ASSUME NEW f \in Fields
      PROVE  Coerce(Parse(e.ints[f])) \in [as : {"bigint"}, n : Integral]
  <2>1. Parse(e.ints[f]).n \in Integral
    BY <1>1, <1>2, DoubleAssumption DEF Parse, Values, Value
  <2> QED BY <2>1 DEF Coerce, Value
<1> QED BY <1>2 DEF Validate, Validated

\* A validated envelope is an envelope.
LEMMA ValidatedIsEnvelope == Validated \subseteq Envelopes
<1>1. [as : {"bigint"}, n : Integral] \subseteq Values BY DEF Values, Types
<1> QED BY <1>1 DEF Validated, Envelopes

\* Integers sent as one type make fields of an envelope.
LEMMA NumbersType ==
  ASSUME TypeOK, NEW as \in Types PROVE Numbers(as) \in [Fields -> Values]
<1>1. \A f \in Fields : Value(as, sent[f]) \in Values BY DEF TypeOK, Value, Values
<1> QED BY <1>1 DEF Numbers

\* Two validated envelopes with the same canonical digits carry the same integers.
LEMMA SameDigits ==
  ASSUME envelope \in Validated, TypeOK,
         \A f \in Fields : Canonical(envelope).ints[f] = Digits(sent[f])
  PROVE  envelope.ints = Numbers("bigint")
<1>1. envelope.ints \in [Fields -> [as : {"bigint"}, n : Integral]] BY DEF Validated
<1>2. ASSUME NEW f \in Fields PROVE envelope.ints[f] = Value("bigint", sent[f])
  <2>1. envelope.ints[f] \in [as : {"bigint"}, n : Integral] BY <1>1, <1>2
  <2>2. Text(envelope.ints[f]) = Digits(sent[f]) BY <1>2 DEF Canonical
  <2>3. Text(envelope.ints[f]) = Digits(envelope.ints[f].n) BY <2>1, BigintText
  <2>4. envelope.ints[f].n = sent[f] BY <2>2, <2>3 DEF Digits
  <2> QED BY <2>1, <2>4 DEF Value
<1>3. Numbers("bigint") \in [Fields -> [as : {"bigint"}, n : Integral]]
  BY DEF Numbers, Value, TypeOK
<1>4. \A f \in Fields : Numbers("bigint")[f] = Value("bigint", sent[f]) BY DEF Numbers
<1> QED BY <1>1, <1>2, <1>3, <1>4

\* A row of integers that a double holds is read back as it was signed.
LEMMA SafeRowReadsBack ==
  ASSUME envelope \in Validated, \A f \in Fields : envelope.ints[f].n <= MaxSafe,
         row = [f \in Fields |-> envelope.ints[f].n]
  PROVE  Canonical(Loaded) = Canonical(envelope)
<1>1. ASSUME NEW f \in Fields PROVE Text(Loaded.ints[f]) = Text(envelope.ints[f])
  <2>1. envelope.ints[f] \in [as : {"bigint"}, n : Integral] BY <1>1 DEF Validated
  <2> DEFINE n == envelope.ints[f].n
  <2>2. n \in Integral /\ Double[n] = n /\ Shortest[n] = n
    BY <2>1, <1>1, DoubleAssumption
  <2>3. Loaded.ints[f] = Value("number", n)
    BY <1>1, <2>2 DEF Loaded, Parse, Value
  <2>4. Text(Value("number", n)) = Digits(n)
    <3>1. /\ Value("number", n).as = "number" /\ Value("number", n).n = n
      BY DEF Value
    <3> HIDE DEF n
    <3> QED BY <3>1, <2>2 DEF Text, Digits
  <2> QED BY <2>3, <2>4, <2>1, BigintText
<1>2. envelope.extra = FALSE /\ Loaded.extra = FALSE BY DEF Validated, Loaded
<1> QED BY <1>1, <1>2 DEF Canonical

-----------------------------------------------------------------------------
LEMMA InitEstablishes == Init => EnvelopeInv
<1> SUFFICES ASSUME Init PROVE EnvelopeInv
  OBVIOUS
<1>1. sent \in [Fields -> Integral] BY IntegralAssumption DEF Init
<1>2. Integral # {}
  <2>1. sent["amount"] \in Integral BY <1>1 DEF Fields, Payload
  <2> QED BY <2>1
<1>3. row \in [Fields -> Integral] BY <1>2 DEF Init, Unsent
<1>4. Numbers("bigint") \in [Fields -> Values]
  <2>1. \A f \in Fields : Value("bigint", sent[f]) \in Values
    BY <1>1 DEF Value, Values, Types
  <2> QED BY <2>1 DEF Numbers
<1>5. PICK extra \in BOOLEAN : envelope = [ints |-> Numbers("bigint"), extra |-> extra]
  BY DEF Init
<1>6. envelope \in Envelopes BY <1>4, <1>5 DEF Envelopes
<1>7. TypeOK BY <1>1, <1>3, <1>6 DEF Init, TypeOK, Stages
<1>8. FreshIsSent BY <1>5 DEF FreshIsSent
<1> QED BY <1>7, <1>8 DEF Init, EnvelopeInv, SignedSent, SignedAsIs, StoredAsIs, Accepted,
           RawIsAccepted, SafeIntegersReload

LEMMA StepPreserves == EnvelopeInv /\ [Next]_vars => EnvelopeInv'
<1> SUFFICES ASSUME EnvelopeInv, [Next]_vars PROVE EnvelopeInv'
  OBVIOUS
<1> USE DEF EnvelopeInv, Accepted
<1>t. TypeOK BY DEF EnvelopeInv
<1>1. CASE Create
  <2>1. /\ stage = "start" /\ origin # "raw" /\ stage' = "signed"
        /\ signature' = Canonical(envelope)
        /\ UNCHANGED <<origin, sent, envelope, row>>
    BY <1>1 DEF Create
  <2>2. \A f \in Fields : Canonical(envelope).ints[f] = Digits(sent[f])
    <3>1. ASSUME NEW f \in Fields PROVE Canonical(envelope).ints[f] = Digits(sent[f])
      <4>1. envelope.ints[f] = Value("bigint", sent[f])
        BY <2>1, <3>1 DEF FreshIsSent, Numbers
      <4>2. Value("bigint", sent[f]).as = "bigint" /\ Value("bigint", sent[f]).n = sent[f]
        BY DEF Value
      <4>3. Text(envelope.ints[f]) = Digits(sent[f]) BY <4>1, <4>2, BigintText
      <4> QED BY <4>3, <3>1 DEF Canonical
    <3> QED BY <3>1
  <2> QED BY <2>1, <2>2, <1>t DEF TypeOK, Stages, FreshIsSent, SignedSent, SignedAsIs,
             StoredAsIs, RawIsAccepted, SafeIntegersReload
<1>2. CASE Produce
  <2>1. /\ stage = "signed" /\ stage' = "wire"
        /\ envelope' = [envelope EXCEPT !.ints = Numbers("string")]
        /\ UNCHANGED <<origin, sent, signature, row>>
    BY <1>2 DEF Produce
  <2>2. envelope' \in Envelopes
    BY <2>1, <1>t, NumbersType DEF TypeOK, Envelopes, Types
  <2> QED BY <2>1, <2>2, <1>t DEF TypeOK, Stages, FreshIsSent, SignedSent, SignedAsIs,
             StoredAsIs, RawIsAccepted, SafeIntegersReload
<1>3. CASE SendElsewhere
  <2>1. /\ stage \in {"start", "signed"} /\ stage' = "wire"
        /\ stage = "start" => origin = "raw"
        /\ UNCHANGED <<origin, sent, signature, row>>
    BY <1>3 DEF SendElsewhere
  <2>2. PICK as \in [Fields -> {"string", "number"}] :
          envelope' = [envelope EXCEPT !.ints = [f \in Fields |-> Value(as[f], sent[f])]]
    BY <1>3 DEF SendElsewhere
  <2>3. \A f \in Fields : Value(as[f], sent[f]) \in Values
    BY <1>t, <2>2 DEF TypeOK, Value, Values, Types
  <2>4. envelope' \in Envelopes BY <2>2, <2>3, <1>t DEF TypeOK, Envelopes
  <2> QED BY <2>1, <2>4, <1>t DEF TypeOK, Stages, FreshIsSent, SignedSent, SignedAsIs,
             StoredAsIs, RawIsAccepted, SafeIntegersReload
<1>4. CASE ConsumeEnveloped
  <2>1. /\ stage = "wire" /\ origin # "raw" /\ stage' = "coerced"
        /\ envelope' = Validate(envelope)
        /\ UNCHANGED <<origin, sent, signature, row>>
    BY <1>4 DEF ConsumeEnveloped
  <2>2. envelope' \in Validated /\ envelope' \in Envelopes
    BY <2>1, <1>t, ValidateTypes, ValidatedIsEnvelope DEF TypeOK
  <2> QED BY <2>1, <2>2, <1>t DEF TypeOK, Stages, FreshIsSent, SignedSent, SignedAsIs,
             StoredAsIs, RawIsAccepted, SafeIntegersReload
<1>5. CASE ConsumeRaw
  <2>1. /\ stage = "wire" /\ origin = "raw" /\ stage' = "coerced"
        /\ signature' = Canonical(envelope')
        /\ UNCHANGED <<origin, sent, row>>
    BY <1>5 DEF ConsumeRaw
  <2>2. envelope' = [Validate(envelope) EXCEPT
                       !.ints["createdAtNs"] = Value("bigint", sent["createdAtNs"])]
    BY <1>5 DEF ConsumeRaw
  <2>3. Validate(envelope) \in Validated BY <1>t, ValidateTypes DEF TypeOK
  <2>4. Value("bigint", sent["createdAtNs"]) \in [as : {"bigint"}, n : Integral]
    BY <1>t DEF TypeOK, Value, Fields
  <2>5. envelope' \in Validated BY <2>2, <2>3, <2>4 DEF Validated
  <2>6. envelope' \in Envelopes BY <2>5, ValidatedIsEnvelope
  <2> QED BY <2>1, <2>5, <2>6, <1>t DEF TypeOK, Stages, FreshIsSent, SignedSent,
             SignedAsIs, StoredAsIs, RawIsAccepted, SafeIntegersReload, Canonical
<1>6. CASE Verify
  <2>1. /\ stage = "coerced"
        /\ stage' = IF Canonical(envelope) = signature THEN "accepted" ELSE "dead"
        /\ UNCHANGED <<origin, sent, envelope, signature, row>>
    BY <1>6 DEF Verify
  <2>2. Canonical(envelope)' = Canonical(envelope) BY <2>1 DEF Canonical
  <2> QED BY <2>1, <2>2, <1>t DEF TypeOK, Stages, FreshIsSent, SignedSent, SignedAsIs,
             StoredAsIs, RawIsAccepted, SafeIntegersReload
<1>7. CASE Append
  <2>1. /\ stage = "accepted" /\ stage' = "stored"
        /\ row' = [f \in Fields |-> Text(envelope.ints[f]).n]
        /\ UNCHANGED <<origin, sent, envelope, signature>>
    BY <1>7 DEF Append
  <2>2. ASSUME NEW f \in Fields
        PROVE  Text(envelope.ints[f]).n = envelope.ints[f].n
               /\ envelope.ints[f].n \in Integral
    <3>1. envelope.ints[f] \in [as : {"bigint"}, n : Integral]
      BY <2>1, <1>t, <2>2 DEF TypeOK, Validated
    <3> QED BY <3>1, BigintText DEF Digits
  <2>3. row' = [f \in Fields |-> envelope.ints[f].n] BY <2>1, <2>2
  <2>4. row' \in [Fields -> Integral] BY <2>3, <2>2
  <2>5. Canonical(envelope)' = Canonical(envelope) BY <2>1 DEF Canonical
  <2> QED BY <2>1, <2>3, <2>4, <2>5, <1>t DEF TypeOK, Stages, FreshIsSent, SignedSent,
             SignedAsIs, StoredAsIs, RawIsAccepted, SafeIntegersReload
<1>8. CASE Load
  <2>1. /\ stage = "stored"
        /\ stage' = IF Canonical(Loaded) = signature THEN "loaded" ELSE "refused"
        /\ UNCHANGED <<origin, sent, envelope, signature, row>>
    BY <1>8 DEF Load
  <2>2. envelope \in Validated /\ signature = Canonical(envelope)
        /\ row = [f \in Fields |-> envelope.ints[f].n]
    BY <2>1, <1>t DEF TypeOK, SignedAsIs, StoredAsIs
  <2>3. \A f \in Fields : envelope.ints[f].n \in Integral BY <2>2 DEF Validated
  <2>4. stage' = "refused" => \E f \in Fields : envelope.ints[f].n > MaxSafe
    BY <2>1, <2>2, <2>3, SafeRowReadsBack, IntegralAssumption, DoubleAssumption
  <2>5. Canonical(envelope)' = Canonical(envelope) BY <2>1 DEF Canonical
  <2>6. SafeIntegersReload' BY <2>1, <2>4 DEF SafeIntegersReload
  <2> QED BY <2>1, <2>2, <2>5, <2>6, <1>t DEF TypeOK, Stages, FreshIsSent, SignedSent,
             SignedAsIs, StoredAsIs, RawIsAccepted
<1>9. CASE UNCHANGED vars
  BY <1>9, <1>t DEF vars, TypeOK, FreshIsSent, SignedSent, SignedAsIs, StoredAsIs,
     RawIsAccepted, SafeIntegersReload, Numbers, Canonical
<1> QED BY <1>1, <1>2, <1>3, <1>4, <1>5, <1>6, <1>7, <1>8, <1>9 DEF Next

\* From create to load (event-envelope.schema.ts, producer.ts, consumer.ts,
\* repository.ts) signature, text and columns relate as EnvelopeInv says.
THEOREM EnvelopeInvariant == Spec => []EnvelopeInv
BY InitEstablishes, StepPreserves, PTL DEF Spec

-----------------------------------------------------------------------------
(* What the verification compares with: the field that the schema drops is in  *)
(* the text that was signed, and the integers are those that were sent or the  *)
(* doubles nearest to them.                                                    *)

SignedText(extra) == [ints |-> [f \in Fields |-> Digits(sent[f])], extra |-> extra]

ExtraSigned ==
  /\ stage = "start" => /\ origin = "factory" => envelope.extra = TRUE
                        /\ origin = "upstream" => envelope.extra = FALSE
  /\ stage # "start" => /\ origin = "factory" => signature.extra = TRUE
                        /\ origin = "upstream" => signature = SignedText(FALSE)

SentOrRounded ==
  origin = "upstream" =>
    /\ stage \in {"start", "signed", "wire"} =>
         \A f \in Fields : envelope.ints[f].n = sent[f]
    /\ stage = "coerced" =>
         \A f \in Fields : envelope.ints[f].n \in {sent[f], Double[sent[f]]}

OwnRefused == origin = "factory" => stage \notin Accepted

SentInv == ExtraSigned /\ SentOrRounded /\ OwnRefused /\ RefusedForReason

LEMMA InitSent == Init => SentInv
<1> SUFFICES ASSUME Init PROVE SentInv OBVIOUS
<1>1. PICK extra \in BOOLEAN :
        /\ origin = "factory" => extra
        /\ origin = "upstream" => ~extra
        /\ envelope = [ints |-> Numbers("bigint"), extra |-> extra]
  BY DEF Init
<1>2. ExtraSigned
  <2>1. envelope.extra = extra BY <1>1
  <2>2. origin = "factory" => extra = TRUE BY <1>1, Zenon
  <2>3. origin = "upstream" => extra = FALSE BY <1>1, Zenon
  <2> QED BY <2>1, <2>2, <2>3 DEF Init, ExtraSigned
<1>3. \A f \in Fields : envelope.ints[f].n = sent[f] BY <1>1 DEF Numbers, Value
<1> QED BY <1>2, <1>3 DEF Init, SentInv, SentOrRounded, OwnRefused, RefusedForReason, Accepted

\* Validated integers are those that were on the wire, or rounded.
LEMMA ValidateRounds ==
  ASSUME NEW e \in Envelopes, NEW f \in Fields
  PROVE  /\ Validate(e).ints[f].n \in {e.ints[f].n, Double[e.ints[f].n]}
         /\ Validate(e).extra = FALSE
<1>1. Parse(e.ints[f]).n \in {e.ints[f].n, Double[e.ints[f].n]} BY DEF Parse, Value
<1>2. Validate(e).ints[f] = Coerce(Parse(e.ints[f])) BY DEF Validate
<1>3. Validate(e).ints[f].n = Parse(e.ints[f]).n BY <1>2 DEF Coerce, Value
<1>4. Validate(e).extra = FALSE BY DEF Validate
<1> QED BY <1>1, <1>3, <1>4

\* Integers that were not rounded verify, when no field was dropped.
LEMMA UnroundedVerifies ==
  ASSUME EnvelopeInv, SentInv, stage = "coerced", origin = "upstream",
         \A f \in Fields : envelope.ints[f].n = sent[f]
  PROVE  Canonical(envelope) = signature
<1>1. ASSUME NEW f \in Fields PROVE Text(envelope.ints[f]) = Digits(sent[f])
  <2>1. envelope.ints[f] \in [as : {"bigint"}, n : Integral]
    BY <1>1 DEF EnvelopeInv, TypeOK, Validated
  <2>2. Text(envelope.ints[f]) = Digits(envelope.ints[f].n) BY <2>1, BigintText
  <2> QED BY <1>1, <2>2
<1>2. envelope.extra = FALSE BY DEF EnvelopeInv, TypeOK, Validated
<1>3. signature = SignedText(FALSE) BY DEF SentInv, ExtraSigned
<1> QED BY <1>1, <1>2, <1>3 DEF Canonical, SignedText

LEMMA SentStep == EnvelopeInv /\ EnvelopeInv' /\ SentInv /\ [Next]_vars => SentInv'
<1> SUFFICES ASSUME EnvelopeInv, EnvelopeInv', SentInv, [Next]_vars PROVE SentInv'
  OBVIOUS
<1> USE DEF SentInv
<1>t. /\ envelope \in Envelopes /\ sent \in [Fields -> Integral]
      /\ envelope' \in Envelopes
  BY DEF EnvelopeInv, TypeOK
<1>1. CASE Create
  <2>1. /\ stage = "start" /\ origin # "raw" /\ stage' = "signed"
        /\ signature' = Canonical(envelope)
        /\ UNCHANGED <<origin, sent, envelope, row>>
    BY <1>1 DEF Create
  <2>2. origin = "factory" => signature'.extra = TRUE
    BY <2>1 DEF ExtraSigned, Canonical
  <2>3. origin = "upstream" => signature' = SignedText(FALSE)
    <3>1. ASSUME NEW f \in Fields PROVE Text(envelope.ints[f]) = Digits(sent[f])
      <4>1. envelope.ints[f] = Value("bigint", sent[f])
        BY <2>1, <3>1 DEF EnvelopeInv, FreshIsSent, Numbers
      <4> QED BY <4>1, BigintText DEF Value
    <3> QED BY <2>1, <3>1 DEF ExtraSigned, Canonical, SignedText
  <2>4. SignedText(FALSE)' = SignedText(FALSE) BY <2>1 DEF SignedText
  <2>5. ExtraSigned' BY <2>1, <2>2, <2>3, <2>4 DEF ExtraSigned
  <2> QED BY <2>1, <2>5 DEF SentOrRounded, OwnRefused, RefusedForReason, Accepted
<1>2. CASE Produce \/ SendElsewhere
  <2>1. /\ stage \in {"start", "signed"} /\ stage' = "wire"
        /\ stage = "start" => origin = "raw"
        /\ UNCHANGED <<origin, sent, signature, row>>
    BY <1>2 DEF Produce, SendElsewhere
  <2>2. \A f \in Fields : envelope'.ints[f].n = sent[f]
    <3>1. CASE Produce
      <4>1. envelope'.ints = Numbers("string") BY <3>1, <1>t DEF Produce, Envelopes
      <4> QED BY <4>1 DEF Numbers, Value
    <3>2. CASE SendElsewhere
      <4>1. PICK as \in [Fields -> {"string", "number"}] :
              envelope' = [envelope EXCEPT !.ints = [f \in Fields |-> Value(as[f], sent[f])]]
        BY <3>2 DEF SendElsewhere
      <4>2. envelope'.ints = [f \in Fields |-> Value(as[f], sent[f])]
        BY <4>1, <1>t DEF Envelopes
      <4> QED BY <4>2 DEF Value
    <3> QED BY <1>2, <3>1, <3>2
  <2>3. ExtraSigned'
    <3>1. SignedText(FALSE)' = SignedText(FALSE) BY <2>1 DEF SignedText
    <3> QED BY <2>1, <3>1 DEF ExtraSigned
  <2> QED BY <2>1, <2>2, <2>3 DEF SentOrRounded, OwnRefused, RefusedForReason, Accepted
<1>3. CASE ConsumeEnveloped \/ ConsumeRaw
  <2>1. /\ stage = "wire" /\ stage' = "coerced" /\ UNCHANGED <<origin, sent, row>>
        /\ origin # "raw" => envelope' = Validate(envelope) /\ signature' = signature
    BY <1>3 DEF ConsumeEnveloped, ConsumeRaw
  <2>2. ExtraSigned'
    <3>1. SignedText(FALSE)' = SignedText(FALSE) BY <2>1 DEF SignedText
    <3> QED BY <2>1, <3>1 DEF ExtraSigned
  <2>3. origin = "upstream" =>
          \A f \in Fields : envelope'.ints[f].n \in {sent[f], Double[sent[f]]}
    <3>1. \A f \in Fields :
            Validate(envelope).ints[f].n \in {envelope.ints[f].n, Double[envelope.ints[f].n]}
      BY <1>t, ValidateRounds
    <3> QED BY <2>1, <3>1 DEF SentOrRounded
  <2> QED BY <2>1, <2>2, <2>3 DEF SentOrRounded, OwnRefused, RefusedForReason, Accepted
<1>4. CASE Verify
  <2>1. /\ stage = "coerced" /\ stage' \in {"accepted", "dead"}
        /\ stage' = "accepted" <=> Canonical(envelope) = signature
        /\ UNCHANGED <<origin, sent, envelope, signature, row>>
    BY <1>4 DEF Verify
  <2>2. ExtraSigned'
    <3>1. SignedText(FALSE)' = SignedText(FALSE) BY <2>1 DEF SignedText
    <3> QED BY <2>1, <3>1 DEF ExtraSigned
  <2>3. OwnRefused'
    <3>1. envelope.extra = FALSE BY <2>1 DEF EnvelopeInv, TypeOK, Validated
    <3>2. Canonical(envelope).extra = FALSE BY <3>1 DEF Canonical
    <3>3. origin = "factory" => signature.extra = TRUE BY <2>1 DEF ExtraSigned
    <3> QED BY <2>1, <3>2, <3>3 DEF OwnRefused, Accepted
  <2>4. RefusedForReason'
    <3> SUFFICES ASSUME stage' = "dead", origin # "factory"
                 PROVE  origin = "upstream" /\ \E f \in Fields : sent[f] > MaxSafe
      BY <2>1 DEF RefusedForReason
    <3>1. origin = "upstream"
      BY <2>1, OriginsAssumption DEF EnvelopeInv, TypeOK, RawIsAccepted
    <3>2. PICK f \in Fields : envelope.ints[f].n # sent[f]
      BY <2>1, <3>1, UnroundedVerifies
    <3>3. Double[sent[f]] # sent[f] BY <2>1, <3>1, <3>2 DEF SentOrRounded
    <3>4. sent[f] \in Integral /\ sent[f] \in Int /\ MaxSafe \in Int
      BY <1>t, IntegralAssumption, DoubleAssumption
    <3>5. ~(sent[f] <= MaxSafe) BY <3>3, <3>4, DoubleAssumption
    <3> QED BY <3>1, <3>4, <3>5
  <2> QED BY <2>1, <2>2, <2>3, <2>4 DEF SentOrRounded
<1>5. CASE Append \/ Load \/ UNCHANGED vars
  <2>1. /\ UNCHANGED <<origin, sent, envelope, signature>>
        /\ stage' = stage \/ (stage \in Accepted /\ stage' \in Accepted)
    BY <1>5 DEF Append, Load, vars, Accepted
  <2>2. ExtraSigned'
    <3>1. SignedText(FALSE)' = SignedText(FALSE) BY <2>1 DEF SignedText
    <3> QED BY <2>1, <3>1 DEF ExtraSigned, Accepted
  <2> QED BY <2>1, <2>2 DEF SentOrRounded, OwnRefused, RefusedForReason, Accepted
<1> QED BY <1>1, <1>2, <1>3, <1>4, <1>5 DEF Next

LEMMA SentInvariant == Spec => []SentInv
BY InitSent, SentStep, EnvelopeInvariant, PTL DEF Spec

-----------------------------------------------------------------------------
\* The typing of an event on its way, and of what the schemas let through.
THEOREM EnvelopeTypeCorrect == Spec => []TypeOK
<1>1. EnvelopeInv => TypeOK BY DEF EnvelopeInv
<1> QED BY <1>1, EnvelopeInvariant, PTL

\* The consumer's verification lets no integer through that differs from the one
\* that was signed.
THEOREM AcceptedIntact == Spec => []AcceptedAsSigned
<1>1. EnvelopeInv => AcceptedAsSigned
  <2> SUFFICES ASSUME EnvelopeInv, stage \in Accepted, origin # "raw"
               PROVE  envelope.ints = Numbers("bigint")
    BY DEF AcceptedAsSigned
  <2>1. TypeOK /\ envelope \in Validated /\ signature = Canonical(envelope)
    BY DEF EnvelopeInv, TypeOK, SignedAsIs, Accepted
  <2>2. \A f \in Fields : signature.ints[f] = Digits(sent[f])
    BY DEF EnvelopeInv, SignedSent, Accepted
  <2> QED BY <2>1, <2>2, SameDigits
<1> QED BY <1>1, EnvelopeInvariant, PTL

\* The consumer refuses no event whose maker signed the fields of the schema, unless
\* an integer beyond MaxSafe came as digits, and no transaction without an envelope.
THEOREM RefusalsExplained == Spec => []RefusedForReason
<1>1. SentInv => RefusedForReason BY DEF SentInv
<1> QED BY <1>1, SentInvariant, PTL

\* core/domain_models/index.ts:71-75 with event-envelope.schema.ts:31: whatever integers
\* it carries and whoever prints them, no event of TransactionFactory is ever accepted.
THEOREM FactoryEventsRefused ==
  Spec => [](origin = "factory" => stage \notin Accepted)
<1>1. SentInv => (origin = "factory" => stage \notin Accepted) BY DEF SentInv, OwnRefused
<1> QED BY <1>1, SentInvariant, PTL

\* load accepts every stored envelope whose integers are exact doubles.
THEOREM SafeEnvelopesReload == Spec => []SafeIntegersReload
<1>1. EnvelopeInv => SafeIntegersReload BY DEF EnvelopeInv
<1> QED BY <1>1, EnvelopeInvariant, PTL
=============================================================================
