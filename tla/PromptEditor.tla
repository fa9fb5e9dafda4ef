----------------------------- MODULE PromptEditor -----------------------------
(***************************************************************************)
(* The line the user edits, the candidates under it and the rows of the    *)
(* screen (prompt_model.go).  Candidates are computed for the line and the *)
(* cursor, then chosen from, and written into the line at places computed  *)
(* before; the terminal may change its height at any time.                 *)
(***************************************************************************)
EXTENDS PromptCompletion

CONSTANTS
  Chars,     \* what is typed
  MaxLine,   \* bound: a line this long takes no more typing, and a longer one
             \* no edit
  Heights,   \* the heights of the terminal
  History    \* the lines entered before; what a command adds to them is left
             \* to PromptHistory

ASSUME EditorAssumption ==
  MaxLine \in Nat /\ Heights \subseteq Nat \ {0} /\ Heights # {} /\ Chars \subseteq Alphabet /\ History \in Seq(Text)

VARIABLES
  line, cursor,              \* the editor
  completions,               \* the candidates
  selected, completionOffset,  \* the chosen one, and the first that is shown; from 0
  span,      \* completionStart, -End, -Quoted and -QuoteClosed
  historyIndex,
  height,
  commandRunning    \* a command runs

editor == <<line, cursor>>
list == <<completions, selected, completionOffset, span>>
editorVars == <<editor, list, historyIndex, height, commandRunning>>

NoSpan == [start |-> 0, end |-> 0, quoted |-> FALSE, quoteClosed |-> FALSE]

-----------------------------------------------------------------------------
(* promptLayoutForHeight: the rows of each part.  The header has one; with *)
(* borders, so do both ends of the three panels.                           *)
MaxVisible == 6
BaseLines == 1 + 2 + 2 + 2 + 1

Layout(h) ==
  IF h < BaseLines + 2
  THEN LET taken == (IF h >= 2 THEN 1 ELSE 0) + (IF h >= 3 THEN 1 ELSE 0)
       IN  [bordered |-> FALSE, command |-> IF h >= 2 THEN 1 ELSE 0,
            output |-> Max({0, h - 1 - taken}), suggestions |-> 0,
            hint |-> IF h >= 3 THEN 1 ELSE 0]
  ELSE LET left == h - BaseLines - 2
           suggestions == Min({MaxVisible, left})
       IN  [bordered |-> TRUE, command |-> 1, output |-> 1 + left - suggestions,
            suggestions |-> suggestions, hint |-> 1]

VisibleCount(h) == Layout(h).suggestions

(* ensureCompletionVisible: the first candidate shown when n candidates    *)
(* have count rows.                                                        *)
FirstShown_Slip(chosen, first, n, count) ==
  IF count = 0 \/ n = 0 THEN first
  ELSE IF chosen < first THEN chosen
  ELSE IF chosen >= first + count THEN chosen - count + 1 ELSE first

FirstShown(chosen, first, n, count) ==
  IF count = 0 \/ n = 0 THEN first
  ELSE LET near == CASE chosen < first -> chosen
                     [] chosen >= first + count -> chosen - count + 1
                     [] first <= chosen /\ chosen < first + count -> first
       IN  Min({Max({0, near}), Max({0, n - count})})

-----------------------------------------------------------------------------
EditorInit ==
  /\ line = <<>> /\ cursor = 0
  /\ completions = <<>> /\ selected = 0 /\ completionOffset = 0 /\ span = NoSpan
  /\ historyIndex = Len(History)
  /\ height \in Heights
  /\ commandRunning = FALSE

Idle == ~commandRunning
Open == completions # <<>>

ClearCompletions ==
  completions' = <<>> /\ selected' = 0 /\ completionOffset' = 0 /\ span' = NoSpan

RefreshCompletions(text, at) ==
  LET found == CompletePrompt(text, at)
  IN  /\ completions' = found.candidates
      /\ selected' = 0 /\ completionOffset' = 0
      /\ span' = [start |-> found.start, end |-> found.end,
                  quoted |-> found.quoted, quoteClosed |-> found.quoteClosed]

(* What the editor makes of a key that changes the line or the cursor: a   *)
(* character more at the cursor, one less before it, or a step.            *)
Edits ==
  {[line |-> InsertAt(line, cursor + 1, c), cursor |-> cursor + 1] :
     c \in IF Len(line) < MaxLine THEN Chars ELSE {}}
  \cup {[line |-> RemoveAt(line, cursor), cursor |-> cursor - 1] : i \in {cursor} \ {0}}
  \cup {[line |-> line, cursor |-> at] : at \in {cursor - 1, cursor + 1} \cap 0..Len(line)}

UpdateEditor_Slip ==
  /\ Idle /\ Len(line) <= MaxLine
  /\ \E new \in Edits :
       /\ line' = new.line /\ cursor' = new.cursor
       /\ IF new.line # line THEN RefreshCompletions(new.line, new.cursor) ELSE UNCHANGED list
  /\ UNCHANGED <<historyIndex, height, commandRunning>>

UpdateEditor ==
  /\ Idle /\ Len(line) <= MaxLine
  /\ \E new \in Edits :
       /\ line' = new.line /\ cursor' = new.cursor
       /\ RefreshCompletions(new.line, new.cursor)
  /\ UNCHANGED <<historyIndex, height, commandRunning>>

Escape ==
  /\ Idle
  /\ ClearCompletions
  /\ UNCHANGED <<editor, historyIndex, height, commandRunning>>

(* Tab or Enter writes the chosen candidate over the active word.          *)
AcceptCompletion ==
  /\ Idle /\ Open /\ selected < Len(completions)
  /\ LET start == Min({Max({0, span.start}), Len(line)})
         end == Min({Max({start, span.end}), Len(line)})
         value == EncodeCompletionValue(completions[selected + 1].value, span.quoted, span.quoteClosed)
     IN  /\ line' = SubSeq(line, 1, start) \o value \o SubSeq(line, end + 1, Len(line))
         /\ cursor' = start + Len(value)
  /\ ClearCompletions
  /\ UNCHANGED <<historyIndex, height, commandRunning>>

(* The remainder as Go has it, with the sign of a.                         *)
Rem(a, n) == IF a < 0 THEN -((-a) % n) ELSE a % n

Choose(n) ==
  /\ selected' = n
  /\ completionOffset' = FirstShown(n, completionOffset, Len(completions), VisibleCount(height))
  /\ UNCHANGED <<editor, completions, span, historyIndex, height, commandRunning>>

UpOrDown ==
  /\ Idle /\ Open
  /\ \/ Choose((selected - 1 + Len(completions)) % Len(completions))
     \/ Choose((selected + 1) % Len(completions))

(* A page further or back, when any candidate is shown.                    *)
PageCompletions_Slip ==
  LET n == Len(completions)
      count == VisibleCount(height)
  IN  /\ Open /\ count > 0
      /\ \/ Choose((selected + count) % n)
         \/ Choose(Rem(selected - count, n))

PageCompletions ==
  LET n == Len(completions)
      count == VisibleCount(height)
  IN  /\ Open /\ count > 0
      /\ \/ Choose((selected + count) % n)
         \/ Choose((Rem(selected - count, n) + n) % n)

(* Without candidates, Up and Down recall lines; the list stays closed.    *)
Show(text) == line' = text /\ cursor' = Len(text)

HistoryPrevious ==
  /\ Idle /\ ~Open
  /\ History # <<>> /\ historyIndex > 0
  /\ historyIndex' = historyIndex - 1
  /\ Show(History[historyIndex])
  /\ UNCHANGED <<list, height, commandRunning>>

HistoryNext ==
  /\ Idle /\ ~Open
  /\ historyIndex < Len(History)
  /\ historyIndex' = historyIndex + 1
  /\ Show(IF historyIndex + 1 = Len(History) THEN <<>> ELSE History[historyIndex + 2])
  /\ UNCHANGED <<list, height, commandRunning>>

SubmitLine ==
  /\ Idle /\ ~Open
  /\ Stripped(line, Space) # <<>>
  /\ commandRunning' = TRUE
  /\ ClearCompletions
  /\ Show(<<>>)
  /\ UNCHANGED <<historyIndex, height>>

FinishCommand ==
  /\ commandRunning
  /\ commandRunning' = FALSE
  /\ historyIndex' = Len(History)
  /\ UNCHANGED <<editor, list, height>>

Resize ==
  /\ height' \in Heights \ {height}
  /\ UNCHANGED <<editor, list, historyIndex, commandRunning>>

EditorNext ==
  \/ UpdateEditor \/ Escape \/ AcceptCompletion \/ UpOrDown \/ PageCompletions
  \/ HistoryPrevious \/ HistoryNext \/ SubmitLine \/ FinishCommand \/ Resize

EditorSpec == EditorInit /\ [][EditorNext]_editorVars

-----------------------------------------------------------------------------
(* Every part has its kind of value, and no index is negative or past its  *)
(* end.                                                                    *)
EditorTypeOK ==
  /\ line \in Text /\ cursor \in 0..Len(line)
  /\ Open => selected \in 0..(Len(completions) - 1)
  /\ completionOffset \in Nat
  /\ historyIndex \in 0..Len(History)
  /\ height \in Heights
  /\ commandRunning \in BOOLEAN

(* While candidates are open, they and the part of the line that one of    *)
(* them will replace are those of this very line and cursor                *)
(* (refreshCompletions, acceptCompletion, historyPrevious, submitLine).    *)
Current ==
  Open =>
    [start |-> span.start, end |-> span.end, quoted |-> span.quoted,
     quoteClosed |-> span.quoteClosed, candidates |-> completions]
      = CompletePrompt(line, cursor)

(* At every height, a screen that shows candidates shows the chosen one,   *)
(* and leaves no row empty that a candidate could have; and the parts fill *)
(* the terminal (ensureCompletionVisible, promptLayoutForHeight).          *)
InView ==
  LET rows == Layout(height)
      count == rows.suggestions
      first == FirstShown(selected, completionOffset, Len(completions), count)
  IN  /\ height = (IF rows.bordered THEN BaseLines ELSE 1 + rows.hint)
                    + rows.output + rows.command + rows.suggestions
      /\ Open /\ count > 0 =>
           /\ first <= selected /\ selected < first + count
           /\ first = 0 \/ first + count <= Len(completions)

(* The words of a line, and whether a word may be replaced: it has no quote*)
(* inside, or is a quoted one with nothing after its closing quote.        *)
Words(text) ==
  LET tokens == SplitTokens(text)
  IN  [i \in DOMAIN tokens |-> tokens[i].value]

Plain(text, token) ==
  IF token.quoted THEN token.quoteClosed => token.end + 1 = token.rawEnd
  ELSE Quote \notin ToSet(SubSeq(text, token.rawStart + 1, token.rawEnd))

(* Accepting a candidate makes it one word of the line, in the place of    *)
(* the active one, whatever it contains, and changes no other word         *)
(* (acceptCompletion, encodePromptCompletionValue).  A word that may not   *)
(* be replaced is left out: there the code leaves a quote over.            *)
AcceptedIsWord ==
  [][ Open /\ AcceptCompletion =>
        LET tokens == SplitTokens(line)
            active == ActiveToken(tokens, cursor)
            before == {i \in DOMAIN tokens : tokens[i].rawEnd < active.start}
            k == Cardinality(before)
            words == Words(line)
        IN  Plain(line, active) =>
              Words(line') = SubSeq(words, 1, k) \o <<completions[selected + 1].value>>
                 \o SubSeq(words, IF active \in ToSet(tokens) THEN k + 2 ELSE k + 1, Len(words)) ]_editorVars

(* What is inserted for a peer stands, when the command resolves it, for   *)
(* that peer and no other (promptCandidates, resolvePeer): its id does, and*)
(* so does its name, except where the name can be mistaken.                *)
NamesOnePeer ==
  LET tokens == SplitTokens(line)
      kinds == PeerKinds(Args(tokens, ActiveToken(tokens, cursor)))
  IN  \A i \in DOMAIN completions :
        LET c == completions[i]
        IN  c.id # <<>> /\ ~Mistakable(c, kinds) => ResolvePeer(c.value) = {c.id}

(* Without the exception: whatever is inserted for a peer stands for it.   *)
NoneMistaken ==
  \A i \in DOMAIN completions :
    completions[i].id # <<>> => ResolvePeer(completions[i].value) = {completions[i].id}

=============================================================================
