----------------------------- MODULE MC_Session -----------------------------
(* Instantiates Session for TLC: three jobs, LOGIN, SELECT of a mailbox *)
(* and CLOSE, added in any order, against a server that greets, answers *)
(* each command OK or NO and may send one unsolicited response.         *)
EXTENDS Session, TLC

CONSTANTS j1, j2, j3

MCNoMailBox == <<>>

\* one mailbox name, a sequence of one-byte strings
MCMailBoxes == {<<"i">>}

\* a name with a double quote in it
MCMailBoxesQuote == {<<"\"">>}

\* the argument a SELECT job sends for a name: a quoted string with \" and
\* \\ escaped
Quote(name) ==
    <<"\"">> \o FlattenSeq([i \in 1..Len(name) |->
                   IF name[i] \in {"\"", "\\"} THEN <<"\\", name[i]>>
                                               ELSE <<name[i]>>])
                \o <<"\"">>

MCJobCmd == (j1 :> "LOGIN") @@ (j2 :> "SELECT") @@ (j3 :> "CLOSE")
MCJobArg == (j1 :> <<>>) @@ (j2 :> Quote(CHOOSE n \in MailBoxes : TRUE)) @@ (j3 :> <<>>)

\* untagged data ("* 5 EXISTS") and an unsolicited BYE
MCUnsolicited == {[tag |-> Untagged, code |-> "DATA"],
                  [tag |-> Untagged, code |-> "BYE"]}

\* the same, plus a line the parser cannot read
MCUnsolicitedFault == MCUnsolicited \cup {Fault}

\* the same, plus an empty line (a response with no parts)
MCUnsolicitedEmpty == MCUnsolicited \cup {[tag |-> EmptyTag, code |-> ""]}
=============================================================================
