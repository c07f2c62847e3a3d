------------------------------ MODULE MCPrepare ------------------------------
(* A small instance of Prepare for TLC: an emulator with an encrypted token in its settings, as  *)
(* DuckStation, one with its token in a file of its own, as PPSSPP, whose account name is here   *)
(* in the same settings file, and one with a settings file where nothing but its login is        *)
(* declared, as PCSX2's secrets.ini.                                                             *)
EXTENDS Prepare
CONSTANTS conf, vault, a, b, user, token, on, pref, duck, ppsspp, pcsx2, n1, n2, yes, no, mild, hot,
          bad

MCFormatOf == [f \in {conf, vault} |-> "ini"]
MCRank     == [f \in {conf, vault} |-> IF f = conf THEN 1 ELSE 2]
Undeclared == [s \in {a, b} |-> [k \in {user, token, on, pref} |-> Nothing]]
MCEnforce  == [feature \in BOOLEAN |-> [f \in {conf, vault} |->
  IF f = vault THEN Undeclared
  ELSE [Undeclared EXCEPT ![a][on] = IF feature THEN yes ELSE no, ![b][pref] = bad]]]
MCSeed     == [f \in {conf, vault} |->
  IF f = vault THEN Undeclared ELSE [Undeclared EXCEPT ![a][pref] = mild]]
MCNameAt   == [t \in {duck, ppsspp, pcsx2} |->
  CASE t = duck   -> <<conf, a, user>>
    [] t = ppsspp -> <<conf, b, user>>
    [] t = pcsx2  -> <<vault, a, user>>]
MCTokenAt  == [t \in {duck, pcsx2} |-> <<IF t = duck THEN conf ELSE vault, a, token>>]
MCValue    == {yes, no, mild, hot, bad, n2} \cup Name \cup Token

\* What an emulator may leave: a torn file, and one with every kind of repeat.
Torn      == Blank("ini", "junk")
Assigning(ps) == [k \in {user, token, on, pref} |-> IF \E q \in ps : q[1] = k
                    THEN (CHOOSE q \in ps : q[1] = k)[2] ELSE <<>>]
Repeating == [kind |-> "text", pre |-> Assigning({<<user, <<n2>>>>}),
  sec |-> [s \in {a, b} |-> IF s = b THEN <<Assigning({<<pref, <<hot>>>>})>> ELSE
    <<Assigning({<<on, <<no, yes>>>>, <<pref, <<hot, mild>>>>}),
      Assigning({<<user, <<n1, n2>>>>, <<token, << <<n1, 0>> >>>>})>>]]
MCDraft   == [f \in {conf, vault} |-> IF f = conf THEN {Repeating} ELSE {Torn}]
==============================================================================
