---------------------------- MODULE MCPromptEditor ----------------------------
(***************************************************************************)
(* A command without a peer, one for any and one for a channel; a name with*)
(* a space, one that begins with a quote and one that is its user name, one*)
(* that a user and a channel have, and two that are numbers, of which one  *)
(* is that of a peer outside the cache.                                    *)
(***************************************************************************)
EXTENDS PromptEditor

MCAlphabet == {"a", "b", "n", "0", Hex, Space, Quote}

MCHexDigits == {"a", "b", "0"}

MCChars == {"b", Space, Quote}

MCCommands ==
  << [name |-> <<"a">>, suggest |-> "none"], [name |-> <<"b">>, suggest |-> "any"],
     [name |-> <<"n">>, suggest |-> "channel"] >>

MCPeers ==
  << [name |-> <<Quote, "b">>, aliases |-> {<<Quote, "b">>, <<"b", Quote>>},
      id |-> <<Hex, "a", "b", "a">>, kind |-> "chat"],
     [name |-> <<"a", Space, "b">>, aliases |-> {<<"a", Space, "b">>, <<"b", "n">>},
      id |-> <<Hex, "a">>, kind |-> "user"],
     [name |-> <<"a", "b">>, aliases |-> {<<"a", "b">>}, id |-> <<Hex, "b">>, kind |-> "user"],
     [name |-> <<"b", Quote>>, aliases |-> {<<"b", Quote>>}, id |-> <<Hex, "a", "a">>, kind |-> "chat"],
     [name |-> <<"b", "0">>, aliases |-> {<<"b", "0">>}, id |-> <<Hex, "b", "a">>, kind |-> "channel"],
     [name |-> <<"n">>, aliases |-> {<<"n">>}, id |-> <<Hex, "b", "b">>, kind |-> "user"],
     [name |-> <<"n">>, aliases |-> {<<"n">>}, id |-> <<Hex, "b", "b", "0">>, kind |-> "channel"] >>

MCKnown == {MCPeers[i].id : i \in DOMAIN MCPeers} \cup {<<Hex, "0", "a", "b">>}

MCHistory == << <<"n", Space>>, <<"b", Space, Hex>> >>

=============================================================================
