---------------------------- MODULE EventEnvelope ----------------------------
(***************************************************************************)
(* What happens to one signed event on its way: created and signed         *)
(* (core/domain_models), produced to Kafka, parsed, validated and verified *)
(* by the consumer, appended to the events table and loaded again.  A      *)
(* signature covers the canonical text of the envelope, in which a bigint  *)
(* and a number are digits and a string is quoted.  JSON.parse makes       *)
(* doubles of digits, in the consumer and in node-postgres.                *)
(***************************************************************************)
EXTENDS Integers

CONSTANTS Integral,  \* integers that occur
          Samples,   \* those a sender may put into a field
          MaxSafe,   \* Number.MAX_SAFE_INTEGER
          Double,    \* the double nearest to an integer
          Shortest,  \* the integer JSON.stringify prints for a double
          Origins    \* who makes the event

ASSUME IntegralAssumption == Integral \subseteq Int /\ Samples \subseteq Integral
ASSUME DoubleAssumption ==
  /\ Double \in [Integral -> Integral] /\ Shortest \in [Integral -> Integral]
  /\ MaxSafe \in Int
  /\ \A n \in Integral : n <= MaxSafe => Double[n] = n /\ Shortest[n] = n
\* TransactionFactory, a sender whose payload has the fields of the schema only, or
\* one that sends transactions without an envelope.
ASSUME OriginsAssumption == Origins \subseteq {"factory", "upstream", "raw"}

VARIABLES stage,      \* how far the event is
          origin,     \* who made it
          sent,       \* the integers its maker put in
          envelope,   \* the envelope in memory or on the wire
          signature,  \* the text that was signed
          row         \* the integers in the columns metadata and payload

vars == <<stage, origin, sent, envelope, signature, row>>

\* amount.value and timestamp of the payload, createdAtNs of the metadata.
Payload == {"amount", "timestamp"}
Fields  == Payload \cup {"createdAtNs"}
Types   == {"bigint", "number", "string"}
Stages  == {"start", "signed", "wire", "coerced", "accepted", "dead", "stored",
            "loaded", "refused"}

Value(as, n) == [as |-> as, n |-> n]
Values       == [as : Types, n : Integral]
\* extra: the payload has fields that the schema does not know (its metadata).
Envelopes    == [ints : [Fields -> Values], extra : BOOLEAN]
Unsent       == [f \in Fields |-> CHOOSE n \in Integral : TRUE]
Numbers(as)  == [f \in Fields |-> Value(as, sent[f])]

-----------------------------------------------------------------------------
(* Conversions                                                             *)

\* Mutant of Text: canonicalizeJson prints numbers as it does strings.
TextQuotesNumbers(v) == [quoted |-> v.as # "bigint", n |-> v.n]

\* canonicalizeJson of an integer field.
Text(v) == [quoted |-> v.as = "string",
            n      |-> IF v.as = "number" THEN Shortest[v.n] ELSE v.n]

\* canonicalizeJson of metadata and payload; keys are sorted.
Canonical(e) == [ints |-> [f \in Fields |-> Text(e.ints[f])], extra |-> e.extra]

NotSigned == "none"

\* JSON.parse: digits become a double.
Parse(v) == IF v.as = "string" THEN v ELSE Value("number", Double[v.n])

\* Mutant of Coerce: z.coerce.number in the schemas.
CoerceToNumber(v) == Value("number", Double[v.n])

\* z.coerce.bigint
Coerce(v) == Value("bigint", v.n)

\* MessageEnvelopeSchema or TransactionSchema over the parsed message: integers are
\* coerced, and z.object drops what it does not know.
Validate(e) == [ints |-> [f \in Fields |-> Coerce(Parse(e.ints[f]))], extra |-> FALSE]

-----------------------------------------------------------------------------
Init ==
  /\ stage = "start"
  /\ origin \in Origins
  /\ sent \in [Fields -> Samples]
  /\ \E extra \in BOOLEAN :
       /\ origin = "factory" => extra
       /\ origin = "upstream" => ~extra
       /\ envelope = [ints |-> Numbers("bigint"), extra |-> extra]
  /\ signature = NotSigned
  /\ row = Unsent

\* EventEnvelopeFactory.create of a payload with bigints.  The events that
\* TransactionFactory builds have a metadata object of their own in the payload.
Create ==
  /\ stage = "start" /\ origin # "raw"
  /\ stage' = "signed" /\ signature' = Canonical(envelope)
  /\ UNCHANGED <<origin, sent, envelope, row>>

\* KafkaEventProducer.produce: the replacer prints bigints as strings.
Produce ==
  /\ stage = "signed"
  /\ stage' = "wire" /\ envelope' = [envelope EXCEPT !.ints = Numbers("string")]
  /\ UNCHANGED <<origin, sent, signature, row>>

\* Other senders print integers as strings or as digits; the schemas take both.
SendElsewhere ==
  /\ \/ stage = "signed" /\ origin = "upstream"
     \/ stage = "start" /\ origin = "raw"
  /\ \E as \in [Fields -> {"string", "number"}] :
       envelope' = [envelope EXCEPT !.ints = [f \in Fields |-> Value(as[f], sent[f])]]
  /\ stage' = "wire"
  /\ UNCHANGED <<origin, sent, signature, row>>

\* The consumer parses and validates an enveloped message.
ConsumeEnveloped ==
  /\ stage = "wire" /\ origin # "raw"
  /\ stage' = "coerced" /\ envelope' = Validate(envelope)
  /\ UNCHANGED <<origin, sent, signature, row>>

\* Mutant of ConsumeRaw: the message is signed as parsed, before it is validated.
ConsumeRawUnvalidated ==
  /\ stage = "wire" /\ origin = "raw"
  /\ stage' = "coerced" /\ envelope' = Validate(envelope)
  /\ signature' = Canonical(envelope)
  /\ UNCHANGED <<origin, sent, row>>

\* A transaction without envelope is validated, then wrapped and signed; the clock
\* that gives createdAtNs is a bigint.
ConsumeRaw ==
  /\ stage = "wire" /\ origin = "raw"
  /\ stage' = "coerced"
  /\ envelope' = [Validate(envelope) EXCEPT
                    !.ints["createdAtNs"] = Value("bigint", sent["createdAtNs"])]
  /\ signature' = Canonical(envelope')
  /\ UNCHANGED <<origin, sent, row>>

\* Mutant of Verify: the result of verifyEvent is not looked at.
VerifyUnheeded ==
  /\ stage = "coerced"
  /\ stage' = "accepted"
  /\ UNCHANGED <<origin, sent, envelope, signature, row>>

\* verifyEnvelope; a message it refuses goes to the dead-letter topic.
Verify ==
  /\ stage = "coerced"
  /\ stage' = IF Canonical(envelope) = signature THEN "accepted" ELSE "dead"
  /\ UNCHANGED <<origin, sent, envelope, signature, row>>

\* EventRepository.append: the canonical text goes into JSONB, which keeps digits
\* exactly.
Append ==
  /\ stage = "accepted"
  /\ stage' = "stored" /\ row' = [f \in Fields |-> Text(envelope.ints[f]).n]
  /\ UNCHANGED <<origin, sent, envelope, signature>>

\* What load builds from a row: node-postgres parses the columns.  createdAtNs would
\* become a bigint if it were a string.
Loaded == [ints |-> [f \in Fields |-> Parse(Value("bigint", row[f]))], extra |-> FALSE]

\* EventRepository.load verifies what it built, or throws IntegrityViolationError.
Load ==
  /\ stage = "stored"
  /\ stage' = IF Canonical(Loaded) = signature THEN "loaded" ELSE "refused"
  /\ UNCHANGED <<origin, sent, envelope, signature, row>>

Next == \/ Create \/ Produce \/ SendElsewhere \/ ConsumeEnveloped \/ ConsumeRaw
        \/ Verify \/ Append \/ Load

Spec == Init /\ [][Next]_vars

-----------------------------------------------------------------------------
Accepted == {"accepted", "stored", "loaded", "refused"}

\* The type that the schemas promise of a validated envelope.
Validated == [ints : [Fields -> [as : {"bigint"}, n : Integral]], extra : {FALSE}]

\* Every variable has its type; what the consumer works with has the type inferred
\* from the schemas.
TypeOK ==
  /\ stage \in Stages /\ origin \in Origins
  /\ sent \in [Fields -> Integral] /\ row \in [Fields -> Integral]
  /\ envelope \in Envelopes
  /\ stage \notin {"start", "signed", "wire"} => envelope \in Validated

\* What the consumer accepts in an envelope carries the integers its maker signed,
\* to the last digit, in the type the rest of the code computes with, whether
\* the wire had them as strings or as digits that JSON.parse rounds.
AcceptedAsSigned ==
  stage \in Accepted /\ origin # "raw" => envelope.ints = Numbers("bigint")

\* The verification of the consumer refuses an event for two reasons only: the schema
\* dropped a field that its maker signed, or an integer that came as digits is
\* beyond those that a double holds exactly.  A transaction sent without an envelope
\* is never refused, whatever was rounded or dropped before the consumer signed it.
RefusedForReason ==
  stage = "dead" => \/ origin = "factory"
                    \/ origin = "upstream" /\ \E f \in Fields : sent[f] > MaxSafe

\* Whatever the consumer accepted and append stored, load verifies again, unless
\* an integer is beyond those that a double holds exactly.
SafeIntegersReload ==
  stage = "refused" => \E f \in Fields : envelope.ints[f].n > MaxSafe

\* "the byte sequence being verified is identical to the one that was signed"
\* (verifyEnvelope): an event that create signed and produce sent is accepted.
CreatedVerifies == stage # "dead"
=============================================================================
