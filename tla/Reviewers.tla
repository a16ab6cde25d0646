------------------------------ MODULE Reviewers ------------------------------
(***************************************************************************)
(* The deterministic reviewers of domain/reviews.py and the ReviewEngine   *)
(* that runs them one after another over one Work.                         *)
(*                                                                         *)
(* The content of a block is a sequence of tokens: words (numbers), Stop   *)
(* for a run of . ! ?, written on to the word before it, and Break for the *)
(* end of a line.  What a reviewer counts in characters it counts here in  *)
(* tokens.  The id of a finding is a hash of what the finding says; the    *)
(* findings are kept as a set, without the order the hashes give them.     *)
(***************************************************************************)
EXTENDS Integers, Sequences, FiniteSets, SequencesExt, FiniteSetsExt

CONSTANTS
  Stop, Break,
  Text,         \* the contents of the blocks, in reading order
  Engine        \* the reviewers of the engine, in order: [kind, and its parameters]

VARIABLES
  content,      \* the text under review
  done,         \* reviewers that have run
  findings

reviewVars == <<content, done, findings>>

Token == Nat \cup {Stop, Break}
Phrase == Seq(Token) \ {<<>>}

\* What the validators of the reviewers let through.
ASSUME ReviewersAssumption ==
  /\ Stop # Break /\ Stop \notin Nat /\ Break \notin Nat
  /\ Text \subseteq Seq(Seq(Token))
  /\ Engine \in Seq(Range(Engine))
  /\ \A r \in Range(Engine) :
       /\ r.kind \in {"repeated_phrase", "cross_block", "voice_drift", "continuity",
                      "structural", "rhythm"}
       /\ r.kind = "repeated_phrase" => r.phrase \in Phrase /\ r.minimum \in Nat \ {0}
       /\ r.kind = "cross_block" => r.phrases \subseteq Phrase /\ r.blocks \in Nat \ {0}
       /\ r.kind = "structural" => r.phrases \subseteq Phrase
       /\ r.kind = "continuity" => r.established \cup r.conflicting \subseteq Phrase
       /\ r.kind = "rhythm" => {r.shortRun, r.longRun} \subseteq Nat \ {0}

Finding(target, kind, evidence) == [target |-> target, kind |-> kind, evidence |-> evidence]

----------------------------------------------------------------------------
(* Counting *)

OccursAt(phrase, text, i) ==
  i + Len(phrase) - 1 <= Len(text) /\ SubSeq(text, i, i + Len(phrase) - 1) = phrase

Occurrences(phrase, text) == {i \in DOMAIN text : OccursAt(phrase, text, i)}

\* str.count: from the left, each occurrence after the end of the one before.
Count(phrase, text) ==
  LET from[i \in 1..(Len(text) + Len(phrase))] ==
        IF i > Len(text) THEN 0
        ELSE IF OccursAt(phrase, text, i) THEN 1 + from[i + Len(phrase)]
        ELSE from[i + 1]
  IN from[1]

\* Paragraphs: the lines that are not blank.
Paragraphs(text) ==
  LET starts == {i \in DOMAIN text : text[i] # Break /\ (i = 1 \/ text[i-1] = Break)}
      end(i) == Max({j \in i..Len(text) : \A k \in i..j : text[k] # Break})
  IN [i \in starts |-> SubSeq(text, i, end(i))]

\* _words
Words(tokens) ==
  FlattenSeq([k \in DOMAIN tokens |-> IF tokens[k] = Break THEN <<>> ELSE <<tokens[k]>>])

\* _split_sentences: the words of each sentence.  Between two stops a line end leaves a
\* sentence without words; at either end of the text it does not.
Sentences(text) ==
  LET starts == {i \in DOMAIN text : text[i] # Stop /\ (i = 1 \/ text[i-1] = Stop)}
      end(i) == Max({j \in i..Len(text) : \A k \in i..j : text[k] # Stop})
      blank(i) == \A k \in i..end(i) : text[k] = Break
      kept == {i \in starts : blank(i) => i # 1 /\ end(i) # Len(text)}
      place(n) == CHOOSE i \in kept : Cardinality({j \in kept : j <= i}) = n
  IN [n \in 1..Cardinality(kept) |-> Words(SubSeq(text, place(n), end(place(n))))]

\* The run goes on where it broke off.
LongestRunUnbroken(matches) ==
  LET upTo[i \in 0..Len(matches)] ==
        IF i = 0 THEN [best |-> <<0, 0>>, start |-> 0, length |-> 0]
        ELSE LET r == upTo[i-1]
                 start == IF r.length = 0 THEN i - 1 ELSE r.start
             IN IF ~matches[i] THEN r
                ELSE [best |-> IF r.length + 1 > r.best[2] THEN <<start, r.length + 1>>
                               ELSE r.best,
                      start |-> start, length |-> r.length + 1]
  IN upTo[Len(matches)].best

\* _longest_run: where the longest run starts, from 0, and how long it is.
LongestRun(matches) ==
  LET upTo[i \in 0..Len(matches)] ==
        IF i = 0 THEN [best |-> <<0, 0>>, start |-> 0, length |-> 0]
        ELSE LET r == upTo[i-1]
                 start == IF r.length = 0 THEN i - 1 ELSE r.start
             IN IF ~matches[i] THEN [r EXCEPT !.length = 0]
                ELSE [best |-> IF r.length + 1 > r.best[2] THEN <<start, r.length + 1>>
                               ELSE r.best,
                      start |-> start, length |-> r.length + 1]
  IN upTo[Len(matches)].best

----------------------------------------------------------------------------
(* The reviewers: what each finds in the text *)

RepeatedPhrase(r, text) ==
  {Finding(b, "repeated_phrase", r.phrase) :
     b \in {c \in DOMAIN text : Count(r.phrase, text[c]) >= r.minimum}}

\* distribution: the blocks that have the phrase, each with how often.
Distribution(phrase, text) ==
  [b \in {c \in DOMAIN text : Count(phrase, text[c]) > 0} |-> Count(phrase, text[b])]

CrossBlockRepetition(r, text) ==
  {Finding(Min(DOMAIN Distribution(p, text)), "cross_block_repetition",
           <<p, Distribution(p, text)>>) :
     p \in {q \in r.phrases :
              /\ SumFunction(Distribution(q, text)) >= r.minimum
              /\ Cardinality(DOMAIN Distribution(q, text)) >= r.blocks}}

\* Every one of enough markers is in the block.
VoiceDrift(r, text) ==
  LET matched(b) == {m \in r.markers : Occurrences(m, text[b]) # {}}
  IN {Finding(b, "voice_drift", matched(b)) :
        b \in {c \in DOMAIN text : Cardinality(matched(c)) >= r.minimum}}

\* str.find of the markers of one side of a rule: the first place, or none.
FirstOf(markers, text) == UNION {Occurrences(m, text) : m \in markers}

Continuity(r, text) ==
  {Finding(b, "continuity", r.rule) :
     b \in {c \in DOMAIN text :
              LET established == FirstOf(r.established, text[c])
                  conflicts == FirstOf(r.conflicting, text[c])
              IN /\ established # {} /\ conflicts # {}
                 /\ Min(established) < Min(conflicts)}}

Structural(r, text) ==
  LET lines(b) == Paragraphs(text[b])
      times(b, p) == Cardinality({i \in DOMAIN lines(b) : lines(b)[i] = p})
      repeated(b) == {p \in {lines(b)[i] : i \in DOMAIN lines(b)} : times(b, p) >= 2}
  IN UNION {{Finding(b, "duplicate_paragraph", <<p, times(b, p)>>) : p \in repeated(b)}
             \cup {Finding(b, "thematic_reiteration", <<p, Count(p, text[b])>>) :
                     p \in {q \in r.phrases : Count(q, text[b]) >= r.minimum}} : b \in DOMAIN text}

\* RhythmReviewer.review, of one block.
Run(kind, b, matches, minimum) ==
  IF LongestRun(matches)[2] >= minimum THEN {Finding(b, kind, LongestRun(matches))} ELSE {}

RhythmOf(r, b, text) ==
  LET sentences == Sentences(text)
      counts == [i \in DOMAIN sentences |-> Len(sentences[i])]
      all == {counts[i] : i \in DOMAIN counts}
      opened == {i \in DOMAIN sentences : counts[i] >= r.opening}
      opening(i) == SubSeq(sentences[i], 1, r.opening)
      times(o) == Cardinality({i \in opened : opening(i) = o})
      openings == {o \in {opening(i) : i \in opened} : times(o) >= r.openings}
  IN IF sentences = <<>> THEN {}
     ELSE Run("short_sentence_run", b, [i \in DOMAIN counts |-> counts[i] \in 1..r.short], r.shortRun)
          \cup Run("long_sentence_run", b, [i \in DOMAIN counts |-> counts[i] >= r.long], r.longRun)
          \cup (IF Len(counts) >= r.uniform /\ Max(all) - Min(all) <= r.range
                THEN {Finding(b, "uniform_sentence_length", counts)} ELSE {})
          \cup (IF openings = {} THEN {}
                ELSE {Finding(b, "repeated_opening", Max({times(o) : o \in openings}))})

Rhythm(r, text) == UNION {RhythmOf(r, b, text[b]) : b \in DOMAIN text}

ReviewOf(r, text) ==
  CASE r.kind = "repeated_phrase" -> RepeatedPhrase(r, text)
    [] r.kind = "cross_block" -> CrossBlockRepetition(r, text)
    [] r.kind = "voice_drift" -> VoiceDrift(r, text)
    [] r.kind = "continuity" -> Continuity(r, text)
    [] r.kind = "structural" -> Structural(r, text)
    [] r.kind = "rhythm" -> Rhythm(r, text)

----------------------------------------------------------------------------
(* ReviewEngine.review *)

RunReviewer ==
  /\ done < Len(Engine)
  /\ done' = done + 1
  /\ findings' = findings \cup
       {[reviewer |-> done + 1, finding |-> f] : f \in ReviewOf(Engine[done + 1], content)}
  /\ UNCHANGED content

ReviewInit == content \in Text /\ done = 0 /\ findings = {}

ReviewSpec == ReviewInit /\ [][RunReviewer]_reviewVars

----------------------------------------------------------------------------
(* Properties: what each finding means, said without an algorithm *)

\* The most occurrences of a phrase that do not overlap.
Disjoint(phrase, text) ==
  Max({Cardinality(O) : O \in
        {P \in SUBSET Occurrences(phrase, text) :
           \A i, j \in P : i < j => j >= i + Len(phrase)}})

\* A longest stretch where all match, the first of them.
IsLongestRun(run, matches) ==
  LET runs == {q \in (0..Len(matches)) \X (1..Len(matches)) :
                 q[1] + q[2] <= Len(matches) /\ \A i \in (q[1] + 1)..(q[1] + q[2]) : matches[i]}
  IN IF runs = {} THEN run = <<0, 0>>
     ELSE run \in runs /\ \A q \in runs : q[2] < run[2] \/ (q[2] = run[2] /\ q[1] >= run[1])

\* Sentence number k of the text is what stands after k - 1 runs of stops.
SentenceOf(text, i) == Cardinality({j \in 2..i : text[j] # Stop /\ text[j-1] = Stop})
WordsOfSentence(text, k) == {i \in DOMAIN text : text[i] \in Nat /\ SentenceOf(text, i) = k}

FoundBy(n) == {f.finding : f \in {g \in findings : g.reviewer = n}}
On(n, kind, b) == \E f \in FoundBy(n) : f.kind = kind /\ f.target = b
Uses(kind) == {n \in 1..done : Engine[n].kind = kind}

\* A phrase is reported where it stands often enough without overlapping itself.
RepetitionsAreCounted ==
  \A n \in Uses("repeated_phrase"), b \in DOMAIN content :
    On(n, "repeated_phrase", b) <=> Disjoint(Engine[n].phrase, content[b]) >= Engine[n].minimum

\* A repetition is spread over as many blocks, and stands in them as often, as it must;
\* it is reported at the first of them, with how often it stands in each.
RepetitionsAreSpread ==
  \A n \in Uses("cross_block") : \A p \in Engine[n].phrases :
    LET times == [b \in {c \in DOMAIN content : Disjoint(p, content[c]) > 0} |->
                    Disjoint(p, content[b])] IN
    /\ (\E f \in FoundBy(n) : f.evidence[1] = p)
         <=> Cardinality(DOMAIN times) >= Engine[n].blocks /\ SumFunction(times) >= Engine[n].minimum
    /\ \A f \in FoundBy(n) : f.evidence[1] = p =>
         /\ f.evidence[2] = times
         /\ f.target \in DOMAIN times /\ \A b \in DOMAIN times : f.target <= b

\* A contradiction is reported where the state was established before it.
ContradictionsFollow ==
  \A n \in Uses("continuity"), b \in DOMAIN content :
    On(n, "continuity", b) <=>
      \E i \in DOMAIN content[b] :
        /\ \E m \in Engine[n].established : OccursAt(m, content[b], i)
        /\ \A m \in Engine[n].conflicting : \A j \in 1..i : ~OccursAt(m, content[b], j)
        /\ \E m \in Engine[n].conflicting : Occurrences(m, content[b]) # {}

\* The finding covers the first of the longest runs; without one no run is long enough.
RunIsReported(n, kind, b, matches, minimum) ==
  /\ \A f \in FoundBy(n) :
       f.kind = kind /\ f.target = b => IsLongestRun(f.evidence, matches)
  /\ On(n, kind, b) <=>
       \E s \in 0..Len(matches) :
         s + minimum <= Len(matches) /\ \A i \in (s+1)..(s+minimum) : matches[i]

RunsAreReported ==
  \A n \in Uses("rhythm"), b \in DOMAIN content :
    LET r == Engine[n]
        counts == [i \in DOMAIN Sentences(content[b]) |-> Len(Sentences(content[b])[i])]
    IN /\ RunIsReported(n, "short_sentence_run", b, [i \in DOMAIN counts |-> counts[i] \in 1..r.short],
                       r.shortRun)
       /\ RunIsReported(n, "long_sentence_run", b, [i \in DOMAIN counts |-> counts[i] >= r.long],
                       r.longRun)

\* From i to j stands a line: no line end is in it, and it reaches from one to the next.
LineAt(text, i, j) ==
  /\ i <= j /\ \A k \in i..j : text[k] # Break
  /\ i = 1 \/ text[i-1] = Break
  /\ j = Len(text) \/ text[j+1] = Break

Lines(text) ==
  {SubSeq(text, d[1], d[2]) :
     d \in {e \in (DOMAIN text) \X (DOMAIN text) : LineAt(text, e[1], e[2])}}
LinesThatSay(p, text) ==
  {i \in DOMAIN text : \E j \in DOMAIN text : LineAt(text, i, j) /\ SubSeq(text, i, j) = p}

\* What is reported of a block under one kind.
Evidence(n, kind, b) == {f.evidence : f \in {g \in FoundBy(n) : g.kind = kind /\ g.target = b}}

\* A line is reported when another one says just that, with how many do.
LinesAreCounted ==
  \A n \in Uses("structural"), b \in DOMAIN content :
    LET times(p) == Cardinality(LinesThatSay(p, content[b])) IN
    Evidence(n, "duplicate_paragraph", b)
      = {<<p, times(p)>> : p \in {q \in Lines(content[b]) : times(q) >= 2}}

\* A theme is reported where its phrase stands often enough without overlapping itself,
\* with how often that is.
ThemesAreCounted ==
  \A n \in Uses("structural"), b \in DOMAIN content :
    LET times(p) == Disjoint(p, content[b]) IN
    Evidence(n, "thematic_reiteration", b)
      = {<<p, times(p)>> : p \in {q \in Engine[n].phrases : times(q) >= Engine[n].minimum}}

\* The sentences that are measured are those of the text, in their order, and each is the
\* words that stand between its stops, in theirs; only sentences without words are more.
SentencesAreRead ==
  Uses("rhythm") # {} => \A b \in DOMAIN content :
    LET text == content[b]
        read == Sentences(text)
        spoken == {n \in DOMAIN read : read[n] # <<>>}
        numbers == {SentenceOf(text, i) : i \in {j \in DOMAIN text : text[j] \in Nat}}
    IN \E number \in Bijection(spoken, numbers) :
         /\ \A m, n \in spoken : m < n => number[m] < number[n]
         /\ \A n \in spoken : LET W == WordsOfSentence(text, number[n]) IN
              /\ Len(read[n]) = Cardinality(W)
              /\ \A i \in W : read[n][Cardinality({j \in W : j <= i})] = text[i]

\* What is reported is in the text, and what is in the text is reported: phrases that do
\* not overlap, in a block or over several, themes, contradictions in their order, the
\* first of the longest runs of the sentences that are there, lines that are repeated.
\* (voice_drift, uniform_sentence_length and repeated_opening count what they find as it
\* stands: there is nothing to compare their definitions with.)
FindingsMatchTheText ==
  /\ RepetitionsAreCounted /\ RepetitionsAreSpread /\ ContradictionsFollow
  /\ SentencesAreRead /\ RunsAreReported /\ LinesAreCounted /\ ThemesAreCounted

=============================================================================
