------------------------------ MODULE Grounding -------------------------------
(***************************************************************************)
(* Grounding (ai/extraction, and _ground in ai/state/machine.py): what a   *)
(* model claims of an article is kept only where the article's body says   *)
(* so, and an indicator or a technique is stored with the span that does.  *)
(* The body is normalised once, with the way back: each character of the   *)
(* normal text knows the place it came from.                               *)
(*                                                                         *)
(* A text is a sequence of characters: letters (compared without case), a  *)
(* dot, a defanged dot (one character here), a dash, a blank, one that is  *)
(* invisible, an ellipsis.  Which texts are indicators is the patterns'    *)
(* business (iocs.py); here it is a set.                                   *)
(***************************************************************************)
EXTENDS Naturals, SequencesExt, FiniteSetsExt

CONSTANTS
  Letters,
  Bodies,          \* the bodies the article may come to have
  WellFormed,      \* the texts that are indicators
  Techniques, Bundles, \* ATT&CK ids, and the bundles they may be looked up in
  _MAX_REVOCATION_HOPS, _MIN_EVIDENCE_CHARS, MAX_TTPS,
  IocAnswers, TtpAnswers, Sketches, Diamonds  \* what a model may answer

Blank == " "
Invisible == "~"
Defanged == "[.]"
Ellipsis == "..."
Characters == Letters \cup {".", "-", Blank, Invisible, Defanged, Ellipsis}
Text == Seq(Characters)
Nothing == [from |-> 0, to |-> 0]

ASSUME GroundingAssumption ==
  /\ Bodies \subseteq Text /\ WellFormed \subseteq Seq(Letters \cup {"."}) \ {<<>>}
  /\ Bundles \subseteq [live : SUBSET Techniques, by : UNION {[S -> Techniques] : S \in SUBSET Techniques}]
  /\ _MAX_REVOCATION_HOPS \in Nat \ {0} /\ _MIN_EVIDENCE_CHARS \in Nat /\ MAX_TTPS \in Nat
  /\ TtpAnswers \subseteq Seq([technique : Techniques, quote : Text]) /\ Diamonds \subseteq SUBSET Text

VARIABLES
  body, bundle, \* Article.body, and the cached bundle
  iocs, ttps,   \* article_iocs and article_ttps
  sketch, diamond, \* the outputs of those states
  read          \* history: the body each table was written from

groundingVars == <<body, bundle, iocs, ttps, sketch, diamond, read>>

-----------------------------------------------------------------------------
(* anchors.py                                                              *)

\* A dash standing alone between blanks is layout.
IsMarker(raw, i) ==
  \E s \in 1..i, e \in i..Len(raw) :
    /\ \A k \in s..e : raw[k] = "-"
    /\ s = 1 \/ raw[s - 1] = Blank
    /\ e = Len(raw) \/ raw[e + 1] = Blank

refang(c) == IF c = Defanged THEN "." ELSE c

Normal(raw) ==
  LET Emit(n, i) ==
        IF raw[i] = Invisible THEN n
        ELSE IF raw[i] # Blank /\ ~IsMarker(raw, i)
             THEN Append(n, [char |-> refang(raw[i]), at |-> i])
             ELSE IF n = <<>> \/ Last(n).char = Blank THEN n
             ELSE Append(n, [char |-> Blank, at |-> i])
      upTo[i \in 0..Len(raw)] == IF i = 0 THEN <<>> ELSE Emit(upTo[i - 1], i)
  IN  upTo[Len(raw)]

Chars(n) == [i \in DOMAIN n |-> n[i].char]

strip(t) == LET solid == {i \in DOMAIN t : t[i] # Blank}
            IN  IF solid = {} THEN <<>> ELSE SubSeq(t, Min(solid), Max(solid))

Needle(raw) == strip(Chars(Normal(strip(raw))))

\* A quotation is not continued by punctuation.
_extends_word(t, i) == i \in DOMAIN t /\ t[i] \in Letters

Occurs(needle, t, k) == k + Len(needle) - 1 <= Len(t)
                        /\ SubSeq(t, k, k + Len(needle) - 1) = needle

\* (mutant) the first place only
OnEdgesAtFirst(needle, t, from) ==
  LET all == {k \in from..Len(t) : Occurs(needle, t, k)}
  IN  {k \in all : k = Min(all) /\ ~_extends_word(t, k - 1) /\ ~_extends_word(t, k + Len(needle))}

\* The places where the needle stands on the edges of words.
OnEdges(needle, t, from) ==
  {k \in from..Len(t) : /\ Occurs(needle, t, k)
                        /\ ~_extends_word(t, k - 1)
                        /\ ~_extends_word(t, k + Len(needle))}

\* The pieces between ellipses that are not blank.
Segments(quote) ==
  LET Closed(s) == IF strip(s.piece) = <<>> THEN s.done ELSE Append(s.done, s.piece)
      Cut(s, c) == IF c = Ellipsis THEN [done |-> Closed(s), piece |-> <<>>]
                   ELSE [done |-> s.done, piece |-> Append(s.piece, c)]
      upTo[i \in 0..Len(quote)] == IF i = 0 THEN [done |-> <<>>, piece |-> <<>>]
                                   ELSE Cut(upTo[i - 1], quote[i])
  IN  Closed(upTo[Len(quote)])

\* (mutant) every segment is looked for from the top
ResumeAtTop(at, needle) == 1

\* The next segment is looked for after the one before.
Resume(at, needle) == at + Len(needle)

\* find_quote: the span from the first segment to the last, each the leftmost
\* after the one before, or Nothing.
find_quote(raw, quote) ==
  LET n == Normal(raw)
      t == Chars(n)
      segments == Segments(quote)
      Locate(found, segment) ==
        LET needle == Needle(segment)
            places == OnEdges(needle, t, found.resume)
            at     == Min(places)
        IN  IF ~found.ok \/ needle = <<>> \/ places = {} THEN [found EXCEPT !.ok = FALSE]
            ELSE [ok |-> TRUE, resume |-> Resume(at, needle),
                  from |-> IF found.from = 0 THEN n[at].at ELSE found.from,
                  to   |-> n[at + Len(needle) - 1].at]
      upTo[i \in 0..Len(segments)] == IF i = 0 THEN [ok |-> TRUE, resume |-> 1, from |-> 0, to |-> 0]
                                      ELSE Locate(upTo[i - 1], segments[i])
      end == upTo[Len(segments)]
  IN  IF end.ok THEN [from |-> end.from, to |-> end.to] ELSE Nothing

Found(quote) == find_quote(body, quote) # Nothing

-----------------------------------------------------------------------------
(* iocs.py                                                                 *)

\* Where the pattern matches: nothing that would make it another indicator
\* touches it.
Matches(value, t) ==
  {k \in DOMAIN t :
     LET after == k + Len(value)
     IN  /\ Occurs(value, t, k)
         /\ k > 1 => t[k - 1] \notin Letters \cup {".", "-"}
         /\ after <= Len(t) => t[after] \notin Letters \cup {"-"}
         /\ after < Len(t) => ~(t[after] = "." /\ t[after + 1] \in Letters)}

\* Everything the article itself contains, once each, where it is first.
scan(raw) ==
  LET n == Normal(raw)
  IN  {[value |-> v, from |-> n[Min(Matches(v, Chars(n)))].at,
        to |-> n[Min(Matches(v, Chars(n))) + Len(v) - 1].at] :
         v \in {w \in WellFormed : Matches(w, Chars(n)) # {}}}

_key(raw) == LET seen == SelectSeq(strip(raw), LAMBDA c : c # Invisible)
             IN  [i \in DOMAIN seen |-> refang(seen[i])]

\* What the model wrote is looked up first, then what it made of it.
Selected(proposed) ==
  LET By(raw) == {c \in scan(body) : c.value = _key(raw)}
  IN  IF By(proposed.written) # {} THEN By(proposed.written) ELSE By(proposed.value)

\* _ground, for extract_ioc: the rows are replaced.
GroundIocs(answer) ==
  /\ iocs' = UNION {Selected(answer[i]) : i \in DOMAIN answer}
  /\ read' = [read EXCEPT !.iocs = body]
  /\ UNCHANGED <<body, bundle, ttps, sketch, diamond>>

-----------------------------------------------------------------------------
(* attack_catalog.py and ttps.py                                           *)

\* The live technique an id denotes, following revocations, or none.
resolve(id) ==
  LET hop[n \in 0.._MAX_REVOCATION_HOPS] ==
        IF n = 0 THEN id
        ELSE IF hop[n - 1] \in DOMAIN bundle.by \ bundle.live THEN bundle.by[hop[n - 1]]
        ELSE hop[n - 1]
  IN  {hop[_MAX_REVOCATION_HOPS - 1]} \cap bundle.live

Collapsed(quote) == Chars(Normal([i \in DOMAIN quote |-> IF quote[i] = Blank THEN Blank ELSE "x"]))

\* (mutant) duplicates are told by the id the model wrote
SeenAsWritten(kept, mapping) == \E i \in DOMAIN kept : kept[i].technique = mapping.technique

Seen(kept, mapping) ==
  \E i \in DOMAIN kept : kept[i].technique \in resolve(mapping.technique)

\* One mapping after the other, each on what was kept before it.
Mapped(kept, mapping) ==
  LET span == find_quote(body, mapping.quote)
  IN  IF \/ Len(kept) >= MAX_TTPS
         \/ resolve(mapping.technique) = {}
         \/ Len(strip(Collapsed(mapping.quote))) < _MIN_EVIDENCE_CHARS
         \/ span = Nothing
         \/ Seen(kept, mapping)
      THEN kept
      ELSE Append(kept, [technique |-> CHOOSE t \in resolve(mapping.technique) : TRUE,
                         from |-> span.from, to |-> span.to, quote |-> mapping.quote])

\* _ground, for map_ttp.  (A row holds no quote: it is kept for the properties.)
GroundTtps(answer) ==
  /\ LET upTo[i \in 0..Len(answer)] == IF i = 0 THEN <<>> ELSE Mapped(upTo[i - 1], answer[i])
     IN  ttps' = upTo[Len(answer)]
  /\ read' = [read EXCEPT !.ttps = body]
  /\ UNCHANGED <<body, bundle, iocs, sketch, diamond>>

-----------------------------------------------------------------------------
(* The states that write no table: a name that is not in the article goes, *)
(* a relation without a quote that is goes from its name, a vertex without *)
(* one goes.                                                               *)

Supported(actor) == IF actor.related # <<>> /\ ~Found(actor.related)
                    THEN [actor EXCEPT !.related = <<>>] ELSE actor

_ground_sketch(answer) ==
  /\ sketch' = {Supported(actor) : actor \in {a \in answer : Found(a.name)}}
  /\ UNCHANGED <<body, bundle, iocs, ttps, diamond, read>>

_ground_diamond(answer) ==
  /\ diamond' = {quote \in answer : Found(quote)}
  /\ UNCHANGED <<body, bundle, iocs, ttps, sketch, read>>

-----------------------------------------------------------------------------
(* Beside the machine: a full text takes the place of the body, and MITRE  *)
(* publishes another bundle.                                               *)

ReplaceBody(b) == /\ b # body
                  /\ body' = b
                  /\ UNCHANGED <<bundle, iocs, ttps, sketch, diamond, read>>

NewBundle(b) == /\ b # bundle
                /\ bundle' = b
                /\ UNCHANGED <<body, iocs, ttps, sketch, diamond, read>>

GroundingInit == /\ body \in Bodies /\ bundle \in Bundles
                 /\ iocs = {} /\ ttps = <<>> /\ sketch = {} /\ diamond = {}
                 /\ read = [iocs |-> body, ttps |-> body]

GroundingNext == \/ \E answer \in IocAnswers : GroundIocs(answer)
                 \/ \E answer \in TtpAnswers : GroundTtps(answer)
                 \/ \E answer \in Sketches : _ground_sketch(answer)
                 \/ \E answer \in Diamonds : _ground_diamond(answer)
                 \/ \E b \in Bodies : ReplaceBody(b)
                 \/ \E b \in Bundles : NewBundle(b)

GroundingSpec == GroundingInit /\ [][GroundingNext]_groundingVars

-----------------------------------------------------------------------------
(* The reference: what it is for a quote to stand in a text.               *)

WholeWords(needle, t, k) ==
  /\ Occurs(needle, t, k)
  /\ \A j \in {k - 1, k + Len(needle)} \cap DOMAIN t : t[j] \notin Letters

\* The ways to place the segments of a quote in t, one after the other.
Placings(quote, t) ==
  LET needles == [i \in DOMAIN Segments(quote) |-> Needle(Segments(quote)[i])]
  IN  {place \in [DOMAIN needles -> DOMAIN t] : \A i \in DOMAIN needles :
         /\ needles[i] # <<>>
         /\ WholeWords(needles[i], t, place[i])
         /\ i > 1 => place[i] >= place[i - 1] + Len(needles[i - 1])}

Quotes == (UNION {{answer[i].quote : i \in DOMAIN answer} : answer \in TtpAnswers})
            \cup (UNION Diamonds)

-----------------------------------------------------------------------------
\* The types of the variables; every span lies in the body it was read from;
\* and the keys the tables promise: an indicator once, a technique once under
\* its live id, at most MAX_TTPS of them (tables.py, ArticleIoc, ArticleTtp).
GroundingTypeOK ==
  /\ body \in Bodies /\ bundle \in Bundles /\ read \in [iocs : Bodies, ttps : Bodies]
  /\ \A r \in iocs : r.value \in WellFormed /\ r.from \in 1..r.to /\ r.to <= Len(read.iocs)
  /\ \A r, s \in iocs : r.value = s.value => r = s
  /\ Len(ttps) <= MAX_TTPS
  /\ \A i \in DOMAIN ttps : /\ ttps[i].technique \in Techniques
                            /\ ttps[i].from \in 1..ttps[i].to /\ ttps[i].to <= Len(read.ttps)
  /\ \A i, j \in DOMAIN ttps : ttps[i].technique = ttps[j].technique => i = j
  /\ diamond \subseteq Quotes

\* "span_start/span_end index into Article.body so a reader can be shown the
\* sentence" (tables.py): as long as the body is the one that was read, a span
\* starts where the indicator or the quote does and ends where it does, whole
\* words, the segments of an elided quote in their order.
SpansQuote ==
  LET n == Normal(body)
      t == Chars(n)
  IN  /\ read.iocs = body => \A r \in iocs : \E k \in DOMAIN t :
           WholeWords(r.value, t, k) /\ n[k].at = r.from /\ n[k + Len(r.value) - 1].at = r.to
      /\ read.ttps = body => \A i \in DOMAIN ttps : \E place \in Placings(ttps[i].quote, t) :
           LET last == Len(Segments(ttps[i].quote))
               tail == Needle(Segments(ttps[i].quote)[last])
           IN  n[place[1]].at = ttps[i].from /\ n[place[last] + Len(tail) - 1].at = ttps[i].to

\* find_quote takes the leftmost place for each segment and never goes back:
\* it refuses a quote only when there is no way to place its segments in order.
RefusedOnlyIfAbsent ==
  \A quote \in Quotes : Segments(quote) # <<>> =>
    (Found(quote) <=> Placings(quote, Chars(Normal(body))) # {})
=============================================================================
