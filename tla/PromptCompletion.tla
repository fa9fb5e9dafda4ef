--------------------------- MODULE PromptCompletion ---------------------------
(***************************************************************************)
(* What the prompt offers for a line and a place in it (completePrompt,    *)
(* prompt_completion.go), how an accepted name is written into the line    *)
(* (prompt_model.go), and what a peer argument stands for when a command   *)
(* is run (helpers.go).  Text is a sequence of characters; all letters are *)
(* small, the only blank is a space, and "0x" is one character.  A place   *)
(* is the number of characters before it.                                  *)
(***************************************************************************)
EXTENDS Integers, Sequences, SequencesExt, FiniteSets

CONSTANTS
  Alphabet,   \* the characters
  HexDigits,  \* those that are digits of a number
  Commands,   \* the commands [name, suggest], by name; suggest: the peers that
              \* its argument may be
  Peers,      \* the cache [name, aliases, id, kind], in the order of the names;
              \* the aliases are the name and the user name
  Known       \* the ids that ResolveTDLibID knows, of peers in the cache or not

Space == " "
Quote == "\""
Hex == "0x"
Zero == "0"

Text == Seq(Alphabet)

Kinds == {"user", "chat", "channel"}

(* A number is an optional "0x" and digits, and zeros before it tell       *)
(* nothing (parseTDLibPeerID).                                             *)
Digits(text) == IF text # <<>> /\ Head(text) = Hex THEN Tail(text) ELSE text
IsHex(text) == Digits(text) # <<>> /\ ToSet(Digits(text)) \subseteq HexDigits
Number(text) ==
  LET digits == Digits(text)
      first == Min({i \in DOMAIN digits : digits[i] # Zero} \cup {Len(digits) + 1})
  IN  SubSeq(digits, first, Len(digits))

(* Names as the prompt shows them, without blanks at their ends or two in  *)
(* a row (SanitizeTerminalText); ids as it renders them (RenderTDLibPeerID)*)
ASSUME CompletionAssumption ==
  /\ {Space, Quote, Hex} \subseteq Alphabet
  /\ Commands \in Seq([name : Text, suggest : {"none", "any", "chatorchannel"} \cup Kinds])
  /\ Peers \in Seq([name : Text, aliases : SUBSET Text, id : Text, kind : Kinds])
  /\ \A i \in DOMAIN Commands : Commands[i].name # <<>>
  /\ \A i \in DOMAIN Peers :
       LET name == Peers[i].name
       IN  /\ name # <<>> /\ name \in Peers[i].aliases
           /\ Head(name) # Space /\ Last(name) # Space
           /\ \A k \in 2..Len(name) : name[k] = Space => name[k - 1] # Space
  /\ \A i, j \in DOMAIN Peers : i # j => Peers[i].id # Peers[j].id
  /\ Known \subseteq Text /\ \A i \in DOMAIN Peers : Peers[i].id \in Known
  /\ \A id \in Known : id # <<>> /\ Head(id) = Hex /\ IsHex(id)
  /\ \A id, other \in Known : Number(id) = Number(other) => id = other

-----------------------------------------------------------------------------
(* The text between the first and the last character that is not c.        *)
Stripped(text, c) ==
  LET kept == {i \in DOMAIN text : text[i] # c}
  IN  IF kept = {} THEN <<>> ELSE SubSeq(text, Min(kept), Max(kept))

(* What a text or a list has at the places that are kept.                  *)
Keeping(text, kept) ==
  FlattenSeq([i \in DOMAIN text |-> IF i \in kept THEN <<text[i]>> ELSE <<>>])

(* Blanks become one space, and none at the ends.                          *)
Sanitized(text) ==
  LET second == {i \in DOMAIN text : text[i] = Space /\ i > 1 /\ text[i - 1] = Space}
  IN  Stripped(Keeping(text, DOMAIN text \ second), Space)

(* Of a pair of quotes only the first is kept.                             *)
Halved(text) ==
  LET Before(i) == Max({0} \cup {j \in 1..(i - 1) : text[j] # Quote})
      second == {i \in DOMAIN text : text[i] = Quote /\ (i - 1 - Before(i)) % 2 = 1}
  IN  Keeping(text, DOMAIN text \ second)

NormalizePeerInput(text) ==
  LET input == Stripped(text, Space)
  IN  IF input = <<>> \/ Head(input) # Quote THEN input
      ELSE IF Len(input) >= 2 /\ Last(input) = Quote THEN Halved(Stripped(input, Quote))
      ELSE Tail(input)

(* The query loses the spaces at its ends, the text does not.              *)
HasPrefix(text, query) == IsPrefix(Stripped(query, Space), text)
ContainsText(text, query) ==
  LET part == Stripped(query, Space)
  IN  \E i \in 0..(Len(text) - Len(part)) : SubSeq(text, i + 1, i + Len(part)) = part

-----------------------------------------------------------------------------
(* The line split into words.  A quote opens or closes a quoted part, where*)
(* a space does not end the word and a pair of quotes stands for one: the  *)
(* characters after an odd number of quotes are inside.  A token has what  *)
(* the word stands for, what it takes of the line, rawStart to rawEnd, and *)
(* what a completion replaces, start to end.                               *)
Inside(line, i) == Cardinality({j \in 1..(i - 1) : line[j] = Quote}) % 2 = 1
Blank(line, i) == line[i] = Space /\ ~Inside(line, i)
Paired(line, i) == line[i] = Quote /\ Inside(line, i) /\ i < Len(line) /\ line[i + 1] = Quote
Closing(line, i) == line[i] = Quote /\ Inside(line, i) /\ ~Paired(line, i)

Value(line, first, last) ==
  FlattenSeq([k \in 1..(last - first + 1) |->
    LET i == first + k - 1
    IN  IF line[i] # Quote \/ Paired(line, i) THEN <<line[i]>> ELSE <<>>])

(* The end is set by the last character that is no opening quote: after    *)
(* it, after the pair it begins, or before it when it closes the part.     *)
End(line, first, last, start) ==
  LET at == {i \in first..last : line[i] # Quote \/ Inside(line, i)}
      i == Max(at)
  IN  CASE at = {} -> start
        [] at # {} /\ line[i] # Quote -> i
        [] at # {} /\ Paired(line, i) -> i + 1
        [] at # {} /\ Closing(line, i) -> Max({start, i - 1})

Token(line, first, last) ==
  LET quoted == line[first] = Quote
      start == IF quoted THEN first ELSE first - 1
  IN  [value |-> Value(line, first, last), rawStart |-> first - 1, rawEnd |-> last,
       start |-> start, end |-> End(line, first, last, start), quoted |-> quoted,
       quoteClosed |-> quoted /\ \E i \in first..last : Closing(line, i)]

SplitTokens(line) ==
  LET word == {i \in DOMAIN line : ~Blank(line, i)}
      WordEnd(i) == Max({j \in word : j >= i /\ i..j \subseteq word})
  IN  FlattenSeq([i \in DOMAIN line |->
        IF i \in word /\ i - 1 \notin word THEN <<Token(line, i, WordEnd(i))>> ELSE <<>>])

(* The first word that touches the cursor, or an empty one there.          *)
ActiveToken(tokens, cursor) ==
  LET touching == {i \in DOMAIN tokens : tokens[i].rawStart <= cursor /\ cursor <= tokens[i].rawEnd}
  IN  IF touching # {} THEN tokens[Min(touching)]
      ELSE [value |-> <<>>, rawStart |-> cursor, rawEnd |-> cursor,
            start |-> cursor, end |-> cursor, quoted |-> FALSE, quoteClosed |-> FALSE]

-----------------------------------------------------------------------------
(* A candidate is what is inserted and what is shown; id is the peer in    *)
(* its description.                                                        *)
CommandCandidates(query) ==
  LET fitting == Keeping(Commands, {i \in DOMAIN Commands : HasPrefix(Commands[i].name, query)})
  IN  [i \in DOMAIN fitting |->
         [value |-> fitting[i].name, display |-> fitting[i].name, id |-> <<>>]]

(* How well a peer fits: 0 for a whole alias, 1 for the beginning of one,  *)
(* 2 for a part of one or an empty query.                                  *)
PeerMatchRank(peer, query) ==
  CASE query = <<>> -> 2
    [] query # <<>> /\ query \in peer.aliases -> 0
    [] query # <<>> /\ query \notin peer.aliases /\ \E alias \in peer.aliases : HasPrefix(alias, query) -> 1
    [] OTHER -> 2

(* The best come first, and equal ones in the order of their names.        *)
Ranked(peers, query) ==
  FlattenSeq([r \in 1..3 |->
    Keeping(peers, {i \in DOMAIN peers : PeerMatchRank(peers[i], query) = r - 1})])

(* The kinds of peers that a command's argument may be; none when it is not*)
(* a peer.                                                                 *)
PromptPeerFilters(suggest) ==
  CASE suggest = "none" -> {}
    [] suggest \in Kinds -> {suggest}
    [] suggest = "chatorchannel" -> {"chat", "channel"}
    [] suggest = "any" -> Kinds

(* A name that another peer that fits the command has is inserted as the   *)
(* id.                                                                     *)
CandidateValue_Slip(peer, offered) == peer.name

CandidateValue(peer, offered) ==
  IF \E i \in offered : Peers[i].name = peer.name /\ Peers[i].id # peer.id
  THEN peer.id ELSE peer.name

PeerCandidates(text, kinds) ==
  LET offered == {i \in DOMAIN Peers : Peers[i].kind \in kinds}
      query == Sanitized(NormalizePeerInput(text))
      byID == query # <<>> /\ Head(query) = Hex
      Fits(peer) == IF byID THEN HasPrefix(peer.id, query)
                            ELSE \E alias \in peer.aliases : ContainsText(alias, query)
      fitting == Keeping(Peers, {i \in offered : Fits(Peers[i])})
      ordered == IF byID THEN fitting ELSE Ranked(fitting, query)
  IN  [i \in DOMAIN ordered |->
         [value |-> IF byID THEN ordered[i].id ELSE CandidateValue(ordered[i], offered),
          display |-> ordered[i].name, id |-> ordered[i].id]]

(* The words before the active one that are not empty: the command is the  *)
(* first of them, and when there is none, commands are offered.            *)
Args(tokens, active) ==
  Keeping(tokens, {i \in DOMAIN tokens : /\ tokens[i].rawEnd <= active.rawStart
                                         /\ tokens[i].value # <<>>})

PeerKinds(args) ==
  UNION {PromptPeerFilters(Commands[i].suggest) :
           i \in {j \in DOMAIN Commands : args # <<>> /\ Commands[j].name = args[1].value}}

CompletePrompt(line, cursor) ==
  LET tokens == SplitTokens(line)
      active == ActiveToken(tokens, cursor)
      args == Args(tokens, active)
  IN  [start |-> active.start, end |-> active.end,
       quoted |-> active.quoted, quoteClosed |-> active.quoteClosed,
       candidates |-> IF args = <<>> THEN CommandCandidates(active.value)
                                     ELSE PeerCandidates(active.value, PeerKinds(args))]

(* The text that stands for a value in the place of the active word.       *)
EncodeCompletionValue_Slip(value, quoted, quoteClosed) ==
  CASE quoted /\ quoteClosed -> value
    [] quoted /\ ~quoteClosed -> Append(value, Quote)
    [] ~quoted /\ ToSet(value) \cap {Space, Quote} # {} -> <<Quote>> \o value \o <<Quote>>
    [] ~quoted /\ ToSet(value) \cap {Space, Quote} = {} -> value

EncodeCompletionValue(value, quoted, quoteClosed) ==
  LET text == FlattenSeq([i \in DOMAIN value |->
                            IF value[i] = Quote THEN <<Quote, Quote>> ELSE <<value[i]>>])
  IN  CASE quoted /\ quoteClosed -> text
        [] quoted /\ ~quoteClosed -> Append(text, Quote)
        [] ~quoted /\ ToSet(value) \cap {Space, Quote} # {} -> <<Quote>> \o text \o <<Quote>>
        [] ~quoted /\ ToSet(value) \cap {Space, Quote} = {} -> text

-----------------------------------------------------------------------------
(* The peers that a peer argument stands for: the one whose id it is as a  *)
(* number, when it is known; else those in the cache with that alias; else *)
(* those with an alias that begins so.  More than one is an error.         *)
ParsesAs(arg, id) == IsHex(arg) /\ Number(arg) = Number(id)

ResolvePeer(arg) ==
  LET query == Sanitized(NormalizePeerInput(arg))
      Having(Test(_)) == {i \in DOMAIN Peers : \E alias \in Peers[i].aliases : Test(alias)}
      byNumber == {id \in Known : ParsesAs(arg, id)}
      exact == Having(LAMBDA alias : alias = query)
  IN  IF byNumber # {} THEN byNumber
      ELSE {Peers[i].id : i \in IF exact # {} THEN exact
                                ELSE Having(LAMBDA alias : HasPrefix(alias, query))}

(* A name that is inserted may yet be read as something else: it begins    *)
(* with a quote, which is taken off; it is the number of another peer; or  *)
(* it is an alias of another one, which the count of names did not see: its*)
(* user name, or that of a peer that does not fit the command.             *)
Mistakable(c, kinds) ==
  /\ c.value # c.id
  /\ \/ Head(c.value) = Quote
     \/ \E id \in Known \ {c.id} : ParsesAs(c.value, id)
     \/ \E i \in DOMAIN Peers : /\ Peers[i].id # c.id /\ c.value \in Peers[i].aliases
                                /\ Peers[i].name # c.value \/ Peers[i].kind \notin kinds

=============================================================================
