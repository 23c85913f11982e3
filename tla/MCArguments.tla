----------------------------- MODULE MCArguments -----------------------------
(* An instance of Arguments: a word or two for each way to pass or to fail the *)
(* programs' checks.                                                           *)
EXTENDS Arguments

\* Two names, two numerals, one that is too large, a path, and what passes no check.
MCWords == Flags \cup {"ann", "bob", "0", "1", "9", "a/b", "!"}

MCValue == [w \in {"0", "1", "9"} |-> CASE w = "0" -> 0 [] w = "1" -> 1 [] w = "9" -> 9]

\* Bound: of the words that pass the same checks, few are tried in each place.
FewValues ==
  LET token == {None, "1", "ann", "!", "-I"}
      log   == {None, "ann", "a/b", "!", "-S"}
  IN  \A s \in {c, rust, java} \ {Refused} :
        IF program = "append"
          THEN /\ s.given["-K"] = None \/ s.given["-K"][2] \in token
               /\ s.given["log"] = None \/ s.given["log"][2] \in log
          ELSE s.token \in token /\ s.log \in log

\* Bound: so are few names of those that logread of C does not look at.
FewNames ==
  program = "read" /\ c # Refused =>
    /\ c.query = None \/ c.query[2] \in {"ann", "bob", "!"}
    /\ \A i \in 1..Len(c.names) : c.names[i][2] \in {"ann", "bob", "!"}

\* Nothing follows that any of the three accepts.
Alive == {c, rust, java} # {Refused}
================================================================================
