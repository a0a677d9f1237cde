------------------------------- MODULE Quoting -------------------------------
(***************************************************************************)
(* What is made of the text of a message: quoteProcessTextBody cuts it     *)
(* into blocks (what the author wrote, lead-ins, quotes, signatures and    *)
(* boilerplate), from which a reply and a forwarded text are generated     *)
(* again.  Someone writes a text, line by line; it is received; whoever    *)
(* received it may reply, and the reply is a text that is received.        *)
(* A text is the sequence of its lines, a string of two or more characters *)
(* each if it is not blank, and the empty string is one blank line.        *)
(***************************************************************************)
EXTENDS Naturals, Sequences, FiniteSets, SequencesExt

CONSTANTS
    Kinds,       \* what unquoted lines may be
    Quotes,      \* depths to which senders quote
    MaxScan,     \* MAX_BOILERPLATE_LINES: 20
    MaxRepeat,   \* MAX_QUOTE_REPEAT_DEPTH: 5
    Deepest,     \* length of replyQuotePrefixStrings: 9
    Byte,        \* counts of eaten lines are kept in a byte: 256
    MaxLines,    \* bound: lines of what is written first
    MaxReplied,  \* bound: lines of a text that is replied to first
    MaxReplies   \* bound: replies

VARIABLES
    text,      \* the text that is written, or that was received
    rep,       \* bodyRep: the blocks that were made of it
    received,  \* is the text one that was received?
    replies,   \* how much of MaxReplies is spent
    inARow     \* history: replies since something was written or forwarded

vars == <<text, rep, received, replies, inARow>>

\* A line: how deep it is quoted, what it matches, and what became of it.
Line(d, k) == [depth |-> d, kind |-> k, form |-> "whole"]
Blank      == Line(0, "blank")
IsBlank(l) == l.kind = "blank"
Unquoted(l) == [l EXCEPT !.depth = 0]
Requoted(l, d) == [l EXCEPT !.depth = d]

\* A block: its type, the depth of a quote, and the blank lines eaten around it.
Block(t, d, before, after, lines) ==
    [type |-> t, depth |-> d, before |-> before % Byte, after |-> after % Byte, lines |-> lines]
Content(before, after, lines) == Block("content", 0, before, after, lines)
Boilerplate == {"disclaimer", "list", "product"}

-----------------------------------------------------------------------------
(* quoteProcessTextBody *)

\* The last line from 1 to k that is not blank.
LastContentLine(t, k) == IF \E i \in 1..k : ~IsBlank(t[i])
                         THEN CHOOSE i \in 1..k : /\ ~IsBlank(t[i])
                                                  /\ \A j \in i + 1..k : IsBlank(t[j])
                         ELSE 0

\* pushBoilerplate: lines k on of what is left of the chunk are a block of their
\* own, or go with the block that the line below began.
PushBoilerplate(s, k, type) ==
    LET end == LastContentLine(s.chunk, k - 1)
        cut == SubSeq(s.chunk, k, Len(s.chunk))
        ate == (k - 1) - end
    IN  [s EXCEPT !.chunk = SubSeq(@, 1, end),
                  !.blocks = IF type = "merge"
                             THEN [@ EXCEPT ![1].before = ate % Byte, ![1].lines = cut \o @]
                             ELSE <<Block(type, 0, ate, 0, cut)>> \o @,
                  !.sawLine = FALSE, !.left = MaxScan - 1, !.content = Blank, !.just = TRUE,
                  !.sawProduct = @ \/ type = "product"]

\* One turn of the loop of lookBackwardsForBoilerplate: line k of the chunk. What
\* follows a delimiter is what the line examined last is.
LookAt(s, k) ==
    LET l    == s.chunk[k]
        next == [s EXCEPT !.left = @ - 1, !.just = FALSE]
    IN  IF s.left = 0 \/ s.done \/ k > Len(s.chunk) THEN s
        ELSE IF IsBlank(l) THEN next
        ELSE IF l.kind = "sig" THEN PushBoilerplate(s, k, IF s.just THEN "merge" ELSE "signature")
        ELSE IF l.kind = "delim"
        THEN IF s.content.kind = "legal" THEN PushBoilerplate(s, k, "disclaimer")
             ELSE IF s.content.kind = "list" THEN PushBoilerplate(s, k, "list")
             ELSE [s EXCEPT !.done = TRUE]
        ELSE IF ~s.sawLine /\ ~s.sawProduct /\ l.kind = "product" THEN PushBoilerplate(s, k, "product")
        ELSE [next EXCEPT !.sawLine = TRUE, !.content = l]

LookBackwards(chunk) ==
    FoldLeft(LookAt,
             [chunk |-> chunk, blocks |-> <<>>, left |-> MaxScan, done |-> FALSE, content |-> Blank,
              sawLine |-> FALSE, sawProduct |-> FALSE, just |-> FALSE],
             [i \in 1..Len(chunk) |-> Len(chunk) + 1 - i])

\* The blocks of a chunk of content, once signature and boilerplate are split off.
Blocks(s, before, after) ==
    LET n == Len(s.blocks)
        tail == [s.blocks EXCEPT ![n].after = after % Byte]
    IN  IF n = 0 THEN <<Content(before, after, s.chunk)>>
        ELSE IF s.chunk # <<>> THEN <<Content(before, 0, s.chunk)>> \o tail
        ELSE [tail EXCEPT ![1].before = (@ + before) % Byte]
Split(chunk, before, after) == Blocks(LookBackwards(chunk), before, after)

\* The parser: what was made of the lines so far, the first line of the region and
\* its last and last but one lines that are not blank (0: null), whether a character
\* of the last one is cut off, the quote that is read, and what was eaten.
Start ==
    [rep |-> <<>>, region |-> 0, last |-> 0, prev |-> 0, clip |-> FALSE, depth |-> 0, run |-> <<>>,
     generated |-> FALSE, atePre |-> 0, ateQuote |-> 0]

Region(t, p) == LET c == SubSeq(t, p.region, p.last)
                IN  IF ~p.clip THEN c
                    ELSE [c EXCEPT ![Len(c)].form = "clipped",
                                   ![Len(c)].kind = IF @ \in {"legal", "product"} THEN @ ELSE "text"]

\* pushContent, up to the end of line upTo
PushContent(t, p, consider, upTo, force) ==
    LET after == force + (IF upTo > p.last THEN upTo - p.last ELSE 0)
        first == IF p.rep = <<>> THEN p.atePre ELSE p.atePre - 1
    IN  [p EXCEPT !.rep = @ \o (IF p.region = 0
                                THEN IF p.atePre = 0 THEN <<>> ELSE <<Content(first, 0, <<Blank>>)>>
                                ELSE IF consider THEN Split(Region(t, p), p.atePre, after)
                                     ELSE <<Content(p.atePre, after, Region(t, p))>>),
                  !.atePre = 0, !.region = 0, !.last = 0, !.prev = 0, !.clip = FALSE]

\* Mutant of PushQuote: the count of the lines that it ate goes on.
PushQuoteEats(p, depth) ==
    LET end == LastContentLine(p.run, Len(p.run))
        lines == IF end = 0 THEN <<Blank>> ELSE SubSeq(p.run, 1, end)
    IN  [p EXCEPT !.rep = Append(@, Block("quote", p.depth, p.ateQuote, Len(p.run) - end, lines)),
                  !.depth = depth, !.run = <<>>, !.generated = TRUE]

\* pushQuote
PushQuote(p, depth) ==
    LET end == LastContentLine(p.run, Len(p.run))
        lines == IF end = 0 THEN <<Blank>> ELSE SubSeq(p.run, 1, end)
    IN  [p EXCEPT !.rep = Append(@, Block("quote", p.depth, p.ateQuote, Len(p.run) - end, lines)),
                  !.depth = depth, !.run = <<>>, !.ateQuote = 0, !.generated = TRUE]

\* A blank line ends a quote and is only counted between two regions.
ReadBlank(p) ==
    LET q == IF p.depth = 0 THEN p ELSE PushQuote(p, 0)
    IN  IF q.region = 0 THEN [q EXCEPT !.atePre = @ + 1] ELSE q

\* A quote begins at line i, and the line before says who wrote it; if that one has
\* a line right before it, the lead-in is taken to be the two of them, and the end
\* of the region is taken to be one character before the end of the line before.
TwoLines(p) == p.prev # 0 /\ p.prev = p.last - 1
LeadinOne(t, p, i) ==
    LET q == [p EXCEPT !.last = p.prev, !.region = IF p.prev = 0 THEN 0 ELSE @]
    IN  [PushContent(t, q, ~p.generated, p.last - 1, 0) EXCEPT
           !.rep = Append(@, Block("leadin", 0, 0, (i - 1) - p.last, <<t[p.last]>>))]
LeadinTwo(t, p, i) ==
    LET above == p.prev - 1
        clip  == above > 0 /\ ~IsBlank(t[above])
        q == IF p.region = p.prev THEN [p EXCEPT !.region = 0]
             ELSE [p EXCEPT !.last = IF clip THEN above ELSE above - 1, !.clip = clip]
    IN  [PushContent(t, q, ~p.generated, IF above = 0 THEN 0 ELSE above - 1, 0) EXCEPT
           !.rep = Append(@, Block("leadin", 0, 0, i - p.prev, <<[t[p.last] EXCEPT !.form = "joined"]>>))]
Leadin(t, p, i) ==
    IF p.last = 0 \/ t[p.last].kind # "wrote" THEN PushContent(t, p, ~p.generated, i - 1, 0)
    ELSE IF TwoLines(p) THEN LeadinTwo(t, p, i) ELSE LeadinOne(t, p, i)

Takes(q, l) ==
    IF q.run # <<>> \/ ~IsBlank(l) THEN [q EXCEPT !.run = Append(@, Unquoted(l))]
    ELSE [q EXCEPT !.ateQuote = @ + 1]
ReadQuote(t, p, i) ==
    Takes(IF p.depth = 0 THEN [Leadin(t, p, i) EXCEPT !.depth = t[i].depth]
          ELSE IF t[i].depth # p.depth THEN PushQuote(p, t[i].depth) ELSE p,
          t[i])

ReadContent(p, i) ==
    LET q == IF p.depth = 0 THEN p ELSE [PushQuote(p, 0) EXCEPT !.last = 0]
    IN  [q EXCEPT !.region = IF @ = 0 THEN i ELSE @, !.prev = q.last, !.last = i]

ReadLine(t, p, i) ==
    IF t[i].depth > 0 THEN ReadQuote(t, p, i)
    ELSE IF IsBlank(t[i]) THEN ReadBlank(p) ELSE ReadContent(p, i)

\* What is left at the end of the text.
Rest(t, p) ==
    LET n == Len(t)
    IN  IF p.depth > 0 THEN PushQuote(p, 0).rep
        ELSE PushContent(t, p, TRUE, n - 1, IF n > 1 /\ t[n] = Blank THEN 1 ELSE 0).rep

\* The text is read a line at a time; there is none after the last newline.
Chewed(t) ==
    LET n == Len(t)
    IN  Rest(t, FoldLeft(LAMBDA p, i : ReadLine(t, p, i), Start,
                         [i \in 1..(IF t[n] = Blank THEN n - 1 ELSE n) |-> i]))

-----------------------------------------------------------------------------
(* Texts from blocks. A text in the making ends with a line that is begun. *)

Newline(out)     == Append(out, Blank)
Newlines(out, n) == out \o [i \in 1..n |-> Blank]
Add(out, lines)  == Front(out) \o lines
Quoted(lines, d) == [i \in DOMAIN lines |-> Requoted(lines[i], d)]
QuotedBlanks(n, d) == [i \in 1..n |-> Line(d, "blank")]

\* generateForwardBodyText; expandQuoted knows one depth less than the prefixes.
ForwardQuote(out, b) ==
    LET d == IF b.depth < Deepest THEN b.depth ELSE Deepest
        lines == Quoted(b.lines, d)
    IN  Add(out, QuotedBlanks(b.before, d)
                   \o (IF d = Deepest /\ Len(lines) > 1 THEN <<Line(d, "undefined")>> ELSE lines)
                   \o QuotedBlanks(b.after, d))
Forwarded(blocks) ==
    LET Next1(out, i) ==
            LET b == blocks[i]
                o == IF i = 1 THEN out ELSE Newline(out)
            IN  IF b.type = "quote" THEN ForwardQuote(o, b)
                ELSE Newlines(Add(Newlines(o, b.before), b.lines), b.after)
    IN  FoldLeft(Next1, <<Blank>>, [i \in DOMAIN blocks |-> i])

\* generateReplyText: s.last is lastContentDepth, s.lead suppressWhitespaceBlankLine.
\* The blank line after a quote is one less deep than the quote.  (The first newline
\* before a quote is one that nothing asks for.)
Requote(s, lines, d, last, lead) ==
    LET o == IF s.last = 0 THEN s.out
             ELSE IF s.lead THEN Newline(s.out)
             ELSE Newline(Add(Newline(s.out), QuotedBlanks(1, s.last)))
    IN  [out |-> Add(o, Quoted(lines, d)), last |-> last, lead |-> lead]
ReplyBody(blocks) ==
    LET Next1(s, i) ==
            LET b == blocks[i]
                q == IF i = 1 THEN s ELSE [s EXCEPT !.out = Newline(@)]
            IN  CASE b.type \in Boilerplate -> s
                  [] b.type = "quote" ->
                        IF b.depth >= MaxRepeat THEN q
                        ELSE Requote(q, b.lines, b.depth + 1, b.depth, b.lines[Len(b.lines)].kind = "wrote")
                  [] OTHER -> IF b.lines = <<Blank>> THEN s
                              ELSE Requote(s, b.lines, 1, 1, b.type = "leadin")
    IN  FoldLeft(Next1, [out |-> <<Blank>>, last |-> 0, lead |-> FALSE], [i \in DOMAIN blocks |-> i]).out

Signature == <<Line(0, "sig"), Line(0, "text")>>

\* generateReplyParts, and what the user writes above it
ReplyText(blocks, own, signed) ==
    <<own, Blank, Line(0, "wrote")>> \o ReplyBody(blocks)
      \o (IF signed THEN <<Blank>> \o Signature ELSE <<>>)

\* generateForwardParts: the headers are as good as one line of text.
ForwardText(blocks, own, signed) ==
    <<own, Blank>> \o (IF signed THEN Signature \o <<Blank>> ELSE <<>>)
      \o <<Line(0, "text"), Blank>> \o Forwarded(blocks)

\* generateSnippet and estimateAuthoredBodySize: the lines that they are about
Authored(blocks) == {b \in Range(blocks) : b.type = "content" /\ b.lines # <<Blank>>}
SnippetOf(blocks) == IF Authored(blocks) = {} THEN <<>>
                     ELSE blocks[CHOOSE i \in DOMAIN blocks :
                                   /\ blocks[i] \in Authored(blocks)
                                   /\ \A j \in 1..i - 1 : blocks[j] \notin Authored(blocks)].lines

\* processMessageContent: one trailing newline is stripped before.
Stripped(t) == IF t = <<>> THEN <<Blank>> ELSE IF Len(t) > 1 /\ t[Len(t)] = Blank THEN Front(t) ELSE t

-----------------------------------------------------------------------------
Init == text = <<>> /\ rep = <<>> /\ received = FALSE /\ replies = 0 /\ inARow = 0

Lines == {Blank} \cup {Line(0, k) : k \in Kinds}
           \cup {Line(d, k) : d \in Quotes, k \in {"blank", "text", "wrote"}}

Write(l) ==
    /\ ~received /\ replies = 0 /\ Len(text) < MaxLines
    /\ text' = Append(text, l)
    /\ UNCHANGED <<rep, received, replies, inARow>>

Receive ==
    /\ ~received /\ received' = TRUE
    /\ text' = Stripped(text)
    /\ rep' = Chewed(text')
    /\ UNCHANGED <<replies, inARow>>

\* draft_create makes another text of the one that was received.
Derive(new) ==
    /\ received /\ received' = FALSE
    /\ replies < MaxReplies /\ replies' = replies + 1
    /\ replies = 0 => Len(text) <= MaxReplied
    /\ text' = new
    /\ UNCHANGED rep

Reply(own, signed)   == Derive(ReplyText(rep, own, signed)) /\ inARow' = inARow + 1
Forward(own, signed) == Derive(ForwardText(rep, own, signed)) /\ inARow' = 0

Next ==
    \/ \E l \in Lines : Write(l)
    \/ Receive
    \/ \E own \in {Blank, Line(0, "text")}, signed \in BOOLEAN : Reply(own, signed) \/ Forward(own, signed)

Spec == Init /\ [][Next]_vars

-----------------------------------------------------------------------------
(* Properties *)

Said(lines) == SelectSeq(lines, LAMBDA l : ~IsBlank(l))

\* The lines of a block as they were written, for all that is known of them.
AsWritten(l) == [l EXCEPT !.form = "whole", !.kind = IF l.form = "clipped" THEN "any" ELSE @]
LinesOf(b) == IF b.lines[1].form = "joined" THEN <<Line(0, "any"), b.lines[1]>> ELSE Quoted(b.lines, b.depth)
SaidIn(blocks) ==
    Said(FoldLeft(LAMBDA s, b : s \o [i \in DOMAIN LinesOf(b) |-> AsWritten(LinesOf(b)[i])], <<>>, blocks))
Same(s, t) == /\ Len(s) = Len(t)
              /\ \A i \in DOMAIN s : s[i].depth = t[i].depth /\ (s[i].kind = "any" \/ s[i] = t[i])

Authors(l) == l.depth = 0 /\ ~IsBlank(l)
\* Line i begins a quote and line j is the last one before that is not blank.
QuoteAfter(t, j, i) == t[i].depth > 0 /\ Authors(t[j]) /\ \A k \in j + 1..i - 1 : t[k] = Blank
\* The lines that say who wrote the quote below, with a line right above them.
Spills(t) == {j \in 2..Len(t) : /\ t[j].kind = "wrote" /\ Authors(t[j - 1])
                                /\ \E i \in j + 1..Len(t) : QuoteAfter(t, j, i)}

\* No line of a text is missing from its blocks, in another place, or taken for
\* one that is quoted deeper or less deep; and no character of it is, unless the
\* lead-in of a quote is taken to be two lines and there is a line right above.
NothingIsLost ==
    received =>
        /\ Same(SaidIn(rep), Said(text))
        /\ (\E b \in Range(rep) : \E l \in Range(b.lines) : l.form = "clipped")
              <=> \E j \in Spills(text) : j > 2 /\ Authors(text[j - 2])

\* Lines i to j are a whole run of lines quoted to one depth.
QuotedRun(t, i, j) ==
    /\ i <= j /\ t[i].depth > 0 /\ \A k \in i..j : t[k].depth = t[i].depth
    /\ i > 1 => t[i - 1].depth # t[i].depth
    /\ j < Len(t) => t[j + 1].depth # t[i].depth

\* The texts whose blank lines are not miscounted:
Exact(t) ==
    \* no lead-in is taken to be two lines,
    /\ Spills(t) = {}
    \* what follows blank lines at the start is more than a quote and its lead-in,
    /\ t[1] = Blank => \A i \in 2..Len(t) :
          ~(t[i].depth > 0 /\ \A k \in 1..i - 1 : t[k] = Blank \/ (t[k].kind = "wrote" /\ QuoteAfter(t, k, i)))
    \* quotes have something to say, and are not deeper than the prefixes are long,
    /\ \A i, j \in 1..Len(t) : QuotedRun(t, i, j) =>
          LET said == {k \in i..j : ~IsBlank(t[k])}
          IN  said # {} /\ t[i].depth <= Deepest /\ (Cardinality(said) > 1 => t[i].depth < Deepest)
    \* no blank line ends a text after a quote,
    /\ ~\E i \in 1..Len(t) - 1 : t[i].depth > 0 /\ \A k \in i + 1..Len(t) : t[k] = Blank
    \* blank lines do not overflow a byte,
    /\ ~\E i \in 1..Len(t) + 1 - Byte : \A k \in i..i + Byte - 1 : t[k] = Line(t[i].depth, "blank")
    \* and none comes between the marker of a signature and boilerplate.
    /\ ~\E i, j \in 1..Len(t) : /\ i + 1 < j /\ t[i] = Line(0, "sig") /\ \A k \in i + 1..j - 1 : t[k] = Blank
                                /\ t[j].kind \in {"sig", "delim", "product"}

\* "We attempt to generate a message as close to the original message as possible"
\* (generateForwardBodyText): of these texts it generates the very same.
RoundTrip == received /\ Exact(text) => Forwarded(rep) = text

\* A reply quotes all lines of a text one level deeper, in their order, except for
\* boilerplate and for what is quoted too deep already (generateReplyText).
Dropped(b) == b.type \in Boilerplate \/ (b.type = "quote" /\ b.depth >= MaxRepeat)
Kept == FoldLeft(LAMBDA s, b : IF Dropped(b) THEN s ELSE s \o Quoted(b.lines, b.depth + 1), <<>>, rep)
ReplyQuotes == received => Said(ReplyBody(rep)) = Said(Kept)

\* "We also want to avoid messages in a thread indefinitely growing in size
\* because all users keep replying and leaving default quoting intact": after a few
\* replies, one more says just what the last one did (MAX_QUOTE_REPEAT_DEPTH), and
\* so do all later ones.  Until then the blank line after a quote, one less deep,
\* may be read as a quote without text, which each reply quotes deeper.
Thread(own, signed, n) ==
    FoldLeft(LAMBDA t, i : ReplyText(Chewed(Stripped(t)), own, signed), text, [i \in 1..n |-> i])
ThreadsStopGrowing ==
    received /\ replies = 0 /\ Len(text) <= MaxReplied =>
        \A own \in {Blank, Line(0, "text")}, signed \in BOOLEAN :
            Thread(own, signed, MaxRepeat + 4) = Thread(own, signed, MaxRepeat + 3)

\* In a reply that quotes something, what is taken for its author's is what its
\* author wrote: the snippet is from there, there is one lead-in, and there is a
\* signature if it was signed.
RepliesAreRead ==
    received /\ inARow > 0 /\ (\E l \in Range(text) : l.depth > 0 /\ ~IsBlank(l)) =>
        /\ SnippetOf(rep) = IF IsBlank(text[1]) THEN <<>> ELSE <<text[1]>>
        /\ \A b \in Authored(rep) : b.lines = SnippetOf(rep)
        /\ Cardinality({i \in DOMAIN rep : rep[i].type = "leadin"}) = 1
        /\ (\E b \in Range(rep) : b.type = "signature") <=> Line(0, "sig") \in Range(text)

QuotingInStep == NothingIsLost /\ RoundTrip /\ ReplyQuotes /\ ThreadsStopGrowing /\ RepliesAreRead
=============================================================================
