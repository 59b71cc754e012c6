------------------------------ MODULE PageBudgets -----------------------------
(***************************************************************************)
(* src/runtime/snapshot.rs, finalize_page_snapshot, finalize_frame_snapshot*)
(* and finalize_element_snapshot: a snapshot is cut down until its JSON    *)
(* fits the caller's bytes.  The JSON holds its own length and the counts  *)
(* of what was left out, so a cut may also lengthen it.                    *)
(*                                                                         *)
(* Abstracted: a text is its number of bytes, its characters have two; a   *)
(* frame of a page is its length and the number of its elements.           *)
(***************************************************************************)
EXTENDS Integers, Sequences, SequencesExt

CONSTANTS
  Budgets,   \* options.max_bytes
  Texts,     \* lengths of texts
  Envelope,  \* length of what is always there, and of an element
  Reason     \* length of the reason that a truncated accessibility gets

VARIABLES
  snap,   \* the snapshot
  stage,     \* the next cut
  first   \* the snapshot as it was captured

snapshotVars == <<snap, stage, first>>

NoFocus == -1
Digits(n) == IF n < 10 THEN 1 ELSE IF n < 100 THEN 2 ELSE 3
Sum(s, size(_)) == FoldLeft(LAMBDA n, x : n + size(x), 0, s)
Size(element) == Envelope + element.text + element.ax

Elements == {[text |-> t, ax |-> t, available |-> v] : t \in Texts, v \in BOOLEAN}
FrameRecords == {[size |-> 25, elements |-> 2]}

\* serialized_len
Length(s) ==
  Envelope + s.text + s.name
    + Sum(s.elements, Size) + Sum(s.frames, LAMBDA frame : frame.size)
    + Digits(s.emitted) + Digits(s.shown) + Digits(s.omitted) + Digits(s.hidden)

Written(s) == [s EXCEPT !.emitted = Length(s)]

\* settle_page, settle_frame, settle_element: the length of a JSON with its length.
Settle(s) == FoldLeft(LAMBDA t, round : Written(t), s, [round \in 1 .. 8 |-> round])

Fits(s) == Length(s) <= s.max

\* trim_utf8_to: whole characters stay.
Trimmed(text, keep) == IF text <= keep THEN text ELSE keep - (keep % 2)

Truncated(element) ==
  [element EXCEPT !.text = 0, !.available = FALSE,
                  !.ax = IF @ > 0 /\ element.available THEN Reason ELSE 0]
Variable(element) == element.text + element.ax

\* A focus that has lost its element is forgotten.
WithoutLast(s) ==
  [s EXCEPT !.elements = Front(@), !.shown = @ - 1, !.hidden = @ + 1,
            !.omitted = @ + Size(Last(s.elements)),
            !.focus = IF @ >= Len(s.elements) - 1 THEN NoFocus ELSE @]

\* Mutant: only the visible text goes.
WithoutText(s) == [s EXCEPT !.text = 0, !.omitted = @ + s.text]

WithoutTexts(s) == [s EXCEPT !.text = 0, !.name = 0, !.omitted = @ + s.text + s.name]

Goes(next) == stage' = next /\ UNCHANGED first

\* Counts what is there.
Begin ==
  /\ stage = "begin"
  /\ snap' = [snap EXCEPT !.shown = Len(snap.elements)
                                      + Sum(snap.frames, LAMBDA frame : frame.elements)]
  /\ Goes("frames")

DropFrame ==
  /\ stage = "frames"
  /\ LET s == Settle(snap)
     IN IF ~Fits(s) /\ s.frames # <<>>
        THEN /\ snap' = [s EXCEPT !.frames = Front(@), !.dropped = @ + 1,
                                  !.shown = @ - Last(s.frames).elements,
                                  !.hidden = @ + Last(s.frames).elements,
                                  !.omitted = @ + Last(s.frames).size]
             /\ Goes("frames")
        ELSE snap' = s /\ Goes("elements")

\* All but the first, which of an element is itself.
DropElement ==
  /\ stage = "elements"
  /\ LET s == Settle(snap)
     IN IF ~Fits(s) /\ Len(s.elements) > 1 THEN snap' = WithoutLast(s) /\ Goes("elements")
        ELSE snap' = s /\ Goes("text")

TrimText ==
  /\ stage = "text"
  /\ LET s == Settle(snap)
         over == Length(s) - s.max + 16
         cut(text) == Trimmed(text, IF text > over THEN text - over ELSE 0)
         left == IF s.kind = "element" THEN cut(s.elements[1].text) ELSE cut(s.text)
     IN snap' = IF Fits(s) THEN s
                ELSE IF s.kind = "element"
                THEN [s EXCEPT !.elements[1].text = left, !.omitted = @ + s.elements[1].text - left]
                ELSE [s EXCEPT !.text = left, !.omitted = @ + s.text - left]
  /\ Goes("variables")

\* truncate_element_variables; a frame's own texts go with its elements'.
TrimElements ==
  /\ stage = "variables"
  /\ LET s == Settle(snap)
         t == [s EXCEPT !.omitted = @ + Sum(s.elements, Variable),
                        !.elements = [i \in DOMAIN @ |-> Truncated(@[i])]]
     IN snap' = IF Fits(s) THEN s ELSE IF s.kind = "frame" THEN WithoutTexts(t) ELSE t
  /\ Goes(CASE snap.kind = "page" -> "document"
            [] snap.kind = "frame" -> "rest"
            [] snap.kind = "element" -> "check")

TrimDocument ==
  /\ stage = "document"
  /\ LET s == Settle(snap) IN snap' = IF Fits(s) THEN s ELSE WithoutTexts(s)
  /\ Goes("rest")

\* Mutant: the focus stays where it was.
DropRestOnly ==
  /\ stage = "rest"
  /\ LET s == Settle(snap)
     IN IF ~Fits(s) /\ s.elements # <<>>
        THEN snap' = [WithoutLast(s) EXCEPT !.focus = s.focus] /\ Goes("rest")
        ELSE snap' = s /\ Goes("check")

DropRest ==
  /\ stage = "rest"
  /\ LET s == Settle(snap)
     IN IF ~Fits(s) /\ s.elements # <<>>
        THEN snap' = [WithoutLast(s) EXCEPT !.focus = NoFocus] /\ Goes("rest")
        ELSE snap' = s /\ Goes("check")

Check ==
  /\ stage = "check"
  /\ snap' = Settle(snap)
  /\ Goes(IF Fits(snap') THEN "ok" ELSE "too small")

-----------------------------------------------------------------------------
\* What combine_truncation and the capture of the frames leave to be cut.
Captured ==
  {[kind |-> k, max |-> b, text |-> t, name |-> n, elements |-> e, frames |-> f, focus |-> o,
    emitted |-> 0, shown |-> 0, omitted |-> m, hidden |-> 8, dropped |-> 0] :
     k \in {"page", "frame", "element"}, b \in Budgets, t, n \in Texts,
     e \in BoundedSeq(Elements, 2), f \in BoundedSeq(FrameRecords, 1), o \in {NoFocus, 0, 1},
     m \in {95}}

SnapshotInit ==
  /\ snap \in {s \in Captured :
       /\ s.focus < Len(s.elements)
       /\ s.kind # "page" => s.frames = <<>>
       /\ s.kind = "element" => s.elements # <<>> /\ s.text = 0 /\ s.name = 0 /\ s.focus = NoFocus}
  /\ stage = "begin" /\ first = snap

SnapshotNext ==
  Begin \/ DropFrame \/ DropElement \/ TrimText \/ TrimElements \/ TrimDocument \/ DropRest \/ Check

SnapshotSpec == SnapshotInit /\ [][SnapshotNext]_snapshotVars

-----------------------------------------------------------------------------
(* Properties *)

(* A snapshot that is returned fits, and says its own length; one that is   *)
(* refused had nothing more to cut.                                         *)
FitsOrIsRefused ==
  /\ stage = "ok" => Fits(snap) /\ snap.emitted = Length(snap)
  /\ stage = "too small" =>
       snap.frames = <<>> /\ snap.text = 0 /\ snap.name = 0
         /\ Len(snap.elements) = (IF snap.kind = "element" THEN 1 ELSE 0)

(* Every frame and element is in the snapshot or counted as left out, and a *)
(* focus still points at the element it pointed at.                         *)
NothingIsUncounted ==
  stage \notin {"begin", "frames"} =>
    /\ Len(snap.frames) + snap.dropped = Len(first.frames)
    /\ snap.shown = Len(snap.elements) + Sum(snap.frames, LAMBDA frame : frame.elements)
    /\ snap.shown + snap.hidden = first.hidden + Len(first.elements)
                                    + Sum(first.frames, LAMBDA frame : frame.elements)
    /\ snap.focus # NoFocus => snap.focus < Len(snap.elements) /\ snap.focus = first.focus

(* A cut snapshot fits and says truly what it holds and what it left out.   *)
SnapshotsFit == FitsOrIsRefused /\ NothingIsUncounted

-----------------------------------------------------------------------------
(***************************************************************************)
(* What the daemon's `snapshot` shows of a page (handler/snapshot.rs): the *)
(* page text cut at a paragraph or a sentence, then the elements and the   *)
(* text that fit the caller's tokens, the text by a binary search over the *)
(* boundaries of its characters, and what the answer says of the cuts.     *)
(*                                                                         *)
(* A text is a sequence of characters that differ in their bytes, in UTF-8 *)
(* and in JSON; an element is the length of its JSON.                      *)
(***************************************************************************)
CONSTANTS
  TextSize,      \* bound: characters of a page text
  ModeTexts,     \* COMPACT_MAX_TEXT, FULL_MAX_TEXT, in bytes
  ModeElements,  \* COMPACT_MAX_ELEMENTS
  ElementSizes, MaxElements,    \* bound: the elements of a page
  TokenBudgets,       \* max_tokens
  Markers,       \* bytes of the markers around a page text
  Empty,         \* bytes of {"elements":[],"page_text":""}
  Unlimited      \* no max_tokens

VARIABLES page, shown, pc, low, high
contentVars == <<page, shown, pc, low, high>>

Characters == {"x", "wide", "newline", "dot", "space"}
Bytes(c) == IF c = "wide" THEN 2 ELSE 1
JsonBytes(c) == IF c \in {"wide", "newline"} THEN 2 ELSE 1
Total(s, size(_)) == FoldLeft(LAMBDA n, c : n + size(c), 0, s)
Prefix(s, n) == SubSeq(s, 1, n)
PageTexts == UNION {[1 .. n -> Characters] : n \in 0 .. TextSize}
ElementLists == {[i \in 1 .. n |-> size] : n \in 0 .. MaxElements, size \in ElementSizes}
Latest(S) == CHOOSE n \in S : \A k \in S : k <= n

-----------------------------------------------------------------------------
(* truncate_page_text *)

ByteLength(text, n) == Total(Prefix(text, n), Bytes)

\* The last character boundary within the limit, then a paragraph or the end
\* of a sentence in the second half before it.
Boundary(text, limit) == Latest({n \in 0 .. Len(text) : ByteLength(text, n) <= limit})
Paragraphs(text, b) ==
  {n \in 0 .. b - 1 : text[n + 1] = "newline"}
Sentences(text, b) ==
  {n \in 1 .. b - 1 : text[n] = "dot" /\ text[n + 1] = "space"}

Cut(text, limit) ==
  LET b == Boundary(text, limit)
      half == ByteLength(text, b) \div 2
      paragraphs == Paragraphs(text, b)
      sentences == Sentences(text, b)
  IN
  IF ByteLength(text, Len(text)) <= limit THEN Len(text)
  ELSE IF paragraphs # {} /\ ByteLength(text, Latest(paragraphs)) > half THEN Latest(paragraphs)
  ELSE IF sentences # {} /\ ByteLength(text, Latest(sentences) - 1) > half THEN Latest(sentences)
  ELSE b

-----------------------------------------------------------------------------
(* The JSON of a list of elements and a marked text *)

ArrayBytes(list) == 2 + Total(list, LAMBDA size : size) + (IF list = <<>> THEN 0 ELSE Len(list) - 1)
TextBytes(marked, text) == IF marked THEN 2 + Markers + Total(text, JsonBytes) ELSE 2
Content(array, textBytes) == Empty - 4 + array + textBytes
FitsTokens(array, marked, text) ==
  IF page.budget = Unlimited THEN TRUE
  ELSE Content(array, TextBytes(marked, text)) <= 4 * page.budget

Candidates == Prefix(page.elements, IF Len(page.elements) < ModeElements THEN Len(page.elements)
                                    ELSE ModeElements)
Text == Prefix(page.text, page.cut)
Marked == page.include /\ FitsTokens(2, TRUE, <<>>)       \* the markers fit

ContentInit ==
  /\ page \in [text : PageTexts, elements : ElementLists, budget : TokenBudgets, include : BOOLEAN,
               mode : ModeTexts, cut : {0}]
  /\ shown = [elements |-> <<>>, text |-> 0, marked |-> FALSE, limited |-> {}]
  /\ pc = "cut" /\ low = 0 /\ high = 0

Truncate ==
  /\ pc = "cut" /\ page' = [page EXCEPT !.cut = Cut(page.text, page.mode)]
  /\ pc' = "elements"
  /\ UNCHANGED <<shown, low, high>>

\* Mutant: the comma before an element is not counted.
AddElementUncounted ==
  /\ pc = "elements" /\ Len(shown.elements) < Len(Candidates)
  /\ LET next == Append(shown.elements, Candidates[Len(shown.elements) + 1]) IN
     IF FitsTokens(ArrayBytes(next) - Len(next) + 1, Marked, <<>>)
     THEN shown' = [shown EXCEPT !.elements = next] /\ UNCHANGED pc
     ELSE pc' = "text" /\ UNCHANGED shown
  /\ UNCHANGED <<page, low, high>>

AddElement ==
  /\ pc = "elements" /\ Len(shown.elements) < Len(Candidates)
  /\ LET next == Append(shown.elements, Candidates[Len(shown.elements) + 1]) IN
     IF FitsTokens(ArrayBytes(next), Marked, <<>>)
     THEN shown' = [shown EXCEPT !.elements = next] /\ UNCHANGED pc
     ELSE pc' = "text" /\ UNCHANGED shown
  /\ UNCHANGED <<page, low, high>>

AllElements ==
  /\ pc = "elements" /\ Len(shown.elements) = Len(Candidates) /\ pc' = "text"
  /\ UNCHANGED <<page, shown, low, high>>

Limited(text) ==
  (IF Len(shown.elements) < Len(Candidates) THEN {"elements"} ELSE {})
    \cup (IF text THEN {"text"} ELSE {})

WholeText ==
  /\ pc = "text"
  /\ \/ /\ ~page.include
        /\ shown' = [shown EXCEPT !.limited = Limited(FALSE)] /\ pc' = "done"
        /\ UNCHANGED <<low, high>>
     \/ /\ page.include /\ ~Marked
        /\ shown' = [shown EXCEPT !.limited = Limited(TRUE)] /\ pc' = "done"
        /\ UNCHANGED <<low, high>>
     \/ /\ Marked /\ FitsTokens(ArrayBytes(shown.elements), TRUE, Text)
        /\ shown' = [shown EXCEPT !.text = Len(Text), !.marked = TRUE, !.limited = Limited(FALSE)]
        /\ pc' = "done" /\ UNCHANGED <<low, high>>
     \/ /\ Marked /\ ~FitsTokens(ArrayBytes(shown.elements), TRUE, Text)
        /\ low' = 0 /\ high' = Len(Text) + 1 /\ pc' = "search" /\ UNCHANGED shown
  /\ UNCHANGED page

\* `boundaries` has a leading 0 and the end of the text.
Search ==
  /\ pc = "search" /\ low < high
  /\ LET middle == (low + high) \div 2 IN
     IF FitsTokens(ArrayBytes(shown.elements), TRUE, Prefix(Text, middle))
     THEN low' = middle + 1 /\ UNCHANGED high
     ELSE high' = middle /\ UNCHANGED low
  /\ UNCHANGED <<page, shown, pc>>

\* Mutant: the first boundary that does not fit is taken.
FoundNext ==
  /\ pc = "search" /\ low = high
  /\ shown' = [shown EXCEPT !.text = low, !.marked = TRUE, !.limited = Limited(low < Len(Text))]
  /\ pc' = "done" /\ UNCHANGED <<page, low, high>>

Found ==
  /\ pc = "search" /\ low = high
  /\ LET boundary == IF low = 0 THEN 0 ELSE low - 1 IN
     shown' = [shown EXCEPT !.text = boundary, !.marked = TRUE,
                            !.limited = Limited(boundary < Len(Text))]
  /\ pc' = "done" /\ UNCHANGED <<page, low, high>>

ContentNext == Truncate \/ AddElement \/ AllElements \/ WholeText \/ Search \/ Found

ContentSpec == ContentInit /\ [][ContentNext]_contentVars

-----------------------------------------------------------------------------
(* What the answer says of the cuts (build_snapshot_metadata) *)

\* Mutant: a text cut by the mode is not told.
ReasonsOfBudget ==
  [elements |-> IF "elements" \in shown.limited THEN {"token_budget"} ELSE {},
   text |-> IF page.include /\ "text" \in shown.limited THEN {"token_budget"} ELSE {}]

Reasons ==
  [elements |-> (IF Len(Candidates) < Len(page.elements) THEN {"mode_limit"} ELSE {})
                  \cup (IF "elements" \in shown.limited THEN {"token_budget"} ELSE {}),
   text |-> IF ~page.include THEN {"excluded"}
            ELSE (IF page.cut < Len(page.text) THEN {"mode_limit"} ELSE {})
                   \cup (IF "text" \in shown.limited THEN {"token_budget"} ELSE {})]

Shown == Prefix(page.text, shown.text)
Used == Content(ArrayBytes(shown.elements), TextBytes(shown.marked, Shown))

(* The content stays within the tokens asked for, rounded up as documented. *)
StaysInBudget ==
  (pc = "done" /\ page.budget # Unlimited) => (Used + 3) \div 4 <= page.budget

(* As much is shown as fits: no more elements beside an empty text, and no  *)
(* more text beside these elements.                                         *)
ShowsWhatFits ==
  pc = "done" =>
    /\ \A n \in Len(shown.elements) + 1 .. Len(Candidates) :
         ~FitsTokens(ArrayBytes(Prefix(Candidates, n)), Marked, <<>>)
    /\ Marked => \A n \in shown.text + 1 .. Len(Text) :
                   ~FitsTokens(ArrayBytes(shown.elements), TRUE, Prefix(Text, n))
    /\ shown.elements = Prefix(Candidates, Len(shown.elements))

(* What is left out has a reason in the answer, and nothing else has one.   *)
CutsAreTold ==
  pc = "done" =>
    /\ Len(shown.elements) < Len(page.elements) <=> Reasons.elements # {}
    /\ (page.include /\ (shown.text < Len(page.text) \/ ~shown.marked)) <=>
         (Reasons.text \ {"excluded"}) # {}

(* The text of a mode stays within its bytes and loses less than half of    *)
(* them to the paragraph or the sentence it ends with.                      *)
CutKeepsHalf ==
  pc # "cut" =>
    /\ ByteLength(page.text, page.cut) <= page.mode
    /\ page.cut < Len(page.text) =>
         2 * ByteLength(page.text, page.cut) + 1 >= ByteLength(page.text, Boundary(page.text, page.mode))

ShowsInBudget == StaysInBudget /\ ShowsWhatFits /\ CutsAreTold /\ CutKeepsHalf
=============================================================================
