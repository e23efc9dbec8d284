--------------------------- MODULE ChatTransport ---------------------------
(***************************************************************************)
(* How a message that is longer than an event may be is cut to fit:        *)
(* chat_envelope_transport_json and the truncation of RunState.  Lengths   *)
(* are in characters; what JSON adds to a field is an estimate.            *)
(***************************************************************************)
EXTENDS Integers, Sequences

CONSTANTS
    EventLimits,    \* max_event_message_chars
    BodyLengths,    \* lengths of sections, results and summaries
    MaxListed       \* bound: sections, items and agenda entries of a message

ASSUME EventLimitAssumption == EventLimits \subseteq Nat \ {0}
ASSUME LengthAssumption == BodyLengths \subseteq Nat /\ MaxListed \in Nat

\* Of the lists only the longest kind is kept: results of a shell, whose
\* output is cut to the budget, or warnings and the like, cut to 180.
Envelopes == [summary : BodyLengths, sections : {<<>>} \cup {[i \in 1 .. n |-> b] : n \in {1, MaxListed}, b \in BodyLengths},
              results : {0, MaxListed}, output : BodyLengths, notes : {0, MaxListed}, agenda : {0, MaxListed}]
NoEnvelope == [summary |-> 0, sections |-> <<>>, results |-> 0, output |-> 0, notes |-> 0, agenda |-> 0]

Frame == 325         \* empty envelope
PerSection == 87     \* title and punctuation
PerEntry == 400      \* agenda entry, or the short fields of an item
MinimalSize == 743   \* the message that points to the run's logs

VARIABLES
    original,    \* a message
    limit,       \* max_event_message_chars
    sent         \* what is stored: its size, whether it is JSON, and sections

transportVars == <<original, limit, sent>>

---------------------------------------------------------------------------
SumOf(lengths) == LET sum[i \in 0 .. Len(lengths)] == IF i = 0 THEN 0 ELSE sum[i - 1] + lengths[i]
                  IN sum[Len(lengths)]
AtMost(a, b) == IF a <= b THEN a ELSE b

\* model_dump_json
Size(e) == Frame + e.summary + SumOf(e.sections) + PerSection * Len(e.sections)
           + e.results * (PerEntry + e.output) + (e.notes + e.agenda) * PerEntry

\* _truncate_text: the suffix is within the limit
Truncated(length, max) == AtMost(length, max)

\* _compact_envelope
Compacted(e, c) ==
    [summary |-> Truncated(e.summary, AtMost(280, IF c.body \div 2 < 80 THEN 80 ELSE c.body \div 2)),
     sections |-> [i \in 1 .. AtMost(Len(e.sections), c.sections) |-> Truncated(e.sections[i], c.body)],
     results |-> AtMost(e.results, c.items), output |-> Truncated(e.output, c.body),
     notes |-> AtMost(e.notes, c.items), agenda |-> AtMost(e.agenda, c.agenda)]

AtLeast(a, b) == IF a >= b THEN a ELSE b
SectionCountsBug == <<8, 5, 3, 0>>
SectionCounts == <<8, 5, 3, 1, 0>>
BodyBudgets(max) == <<AtLeast(240, max \div 2), AtLeast(220, max \div 3), 1200, 700, 360, 180>>
ItemCounts == <<24, 12, 6, 3, 0>>
AgendaCounts == <<50, 20, 8, 0>>
LastResort == [sections |-> 0, items |-> 0, agenda |-> 0, body |-> 120]

\* The cuts are tried in the order of four nested loops: the body is cut first,
\* the sections last.
Tries == [sections : DOMAIN SectionCounts, items : DOMAIN ItemCounts, agenda : DOMAIN AgendaCounts, body : 1 .. 6]
Turn(try) == ((try.sections * 5 + try.items) * 4 + try.agenda) * 6 + try.body
CutOf(try, max) == [sections |-> SectionCounts[try.sections], items |-> ItemCounts[try.items],
                    agenda |-> AgendaCounts[try.agenda], body |-> BodyBudgets(max)[try.body]]
Fitting(e, max) == {try \in Tries : Size(Compacted(e, CutOf(try, max))) <= max}

\* fit_chat_envelope_for_transport
Fitted(e, max) ==
    LET fitting == Fitting(e, max)
        first == CHOOSE t \in fitting : \A u \in fitting : Turn(t) <= Turn(u)
    IN IF Size(e) <= max THEN e
       ELSE IF fitting = {} THEN Compacted(e, LastResort)
       ELSE Compacted(e, CutOf(first, max))

\* chat_envelope_transport_json, and the truncation by append_event of what is
\* still too long, which keeps the beginning only
Transported(e, max) ==
    LET fitted == Fitted(e, max)
        size == IF Size(fitted) <= max THEN Size(fitted) ELSE MinimalSize
    IN [size |-> IF size <= max THEN size ELSE max + 15, json |-> size <= max,
        sections |-> IF Size(fitted) <= max THEN fitted.sections ELSE <<0>>]

TransportInit == original = NoEnvelope /\ limit = 0 /\ sent = [size |-> 0, json |-> TRUE, sections |-> <<>>]

Transport ==
    /\ original = NoEnvelope
    /\ \E e \in Envelopes, max \in EventLimits :
          original' = e /\ limit' = max /\ sent' = Transported(e, max)

TransportNext == Transport
TransportSpec == TransportInit /\ [][TransportNext]_transportVars

---------------------------------------------------------------------------
(* Properties.                                                             *)

\* From 900 characters on, the limit of the repository's test, a message is
\* stored as JSON, and the phone gets at least the beginning of its first
\* section, however much else the message holds: all else is cut before.
FirstSectionIsKept ==
    limit >= 900 /\ original.sections # <<>> =>
        /\ sent.json
        /\ sent.sections # <<>>
        /\ sent.sections[1] >= AtMost(original.sections[1], 180)

=============================================================================
