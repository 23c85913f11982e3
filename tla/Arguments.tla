------------------------------- MODULE Arguments -------------------------------
(* How the three logappend and the three logread take their command line apart, *)
(* word by word and side by side on the same words: parse_args of logappend.rs, *)
(* logappend.c and AppendArgs.java; parse_args of logread.rs, main of logread.c *)
(* and ReadArgs.java. A state is what the parsers hold after the words so far,  *)
(* and the line may end there, so lines of every length are covered. Words are  *)
(* told apart by the checks they pass.                                          *)
EXTENDS Naturals, Sequences

CONSTANTS
  Words,     \* what a line may consist of
  Alpha,     \* is_alpha_name, is_valid_name, isValidName
  Alnum,     \* is_alnum_token, is_valid_token, isValidToken
  PathC,     \* is_valid_filepath: letters, digits, _ . /
  PathJava,  \* isValidLogPath: the same, and \ : -
  Dashed,    \* the first character is -
  Value,     \* numeral -> number
  MaxInt,    \* 1073741823
  MaxU32,    \* what a room is in the Rust logappend
  MaxNames,  \* bound: persons on a line of logread
  None,      \* not given
  Refused    \* the line is invalid whatever follows

ValueFlags == {"-T", "-K", "-E", "-G", "-R"}
AskFlags   == {"-K", "-E", "-G"}
Modes      == {"-S", "-R", "-I"}

Flags      == ValueFlags \cup Modes \cup {"-A", "-L", "-B"}

ASSUME WordsAssumption ==
  /\ Flags \subseteq Words \cap Dashed
  /\ Alpha \subseteq Alnum /\ Alnum \subseteq PathC
  /\ PathC \subseteq PathJava /\ PathJava \subseteq Words
  /\ DOMAIN Value \subseteq Alnum /\ Dashed \cap PathC = {}
  /\ \A w \in DOMAIN Value : Value[w] \in Nat
  /\ MaxInt \in Nat /\ MaxU32 \in Nat /\ MaxInt <= MaxU32

ASSUME MaxNamesAssumption == MaxNames \in Nat

Slots == {"-T", "-K", "-R", "person", "action", "log"}

\* What a logappend has so far: the flag whose value is due, and for each slot the
\* option and its value.
Line == [want: ValueFlags \cup {None}, given: [Slots -> {None} \cup (Words \X Words)]]

\* What a logread has so far; that of C keeps the person before the -I apart.
Word     == Words \cup {None}
Who      == {"-E", "-G"} \X Words
Question == [want: AskFlags \cup {None}, token: Word, mode: Modes \cup {None},
             log: Word, persons: Seq(Who)]
Command  == [want: AskFlags \cup {None}, token: Word, mode: Modes \cup {None},
             log: Word, query: {None} \cup Who, names: Seq(Who)]

ASSUME NullsAssumption ==
  /\ None \notin Words \cup (Words \X Words)
  /\ Refused \notin Line \cup Question \cup Command

VARIABLES
  program,         \* "append" or "read"
  c, rust, java,   \* what the three parsers hold
  count,           \* the first pass of the C logread
  direct           \* the persons right after the first -I (history)

vars == <<program, c, rust, java, count, direct>>

------------------------------------------------------------------------------
(* logappend. Every value is stored where the last one was, so a parser is      *)
(* what it refuses at once and what it refuses at the end of the line.          *)

Slot(f) == CASE f \in {"-E", "-G"}       -> "person"
             [] f \in {"-A", "-L"}       -> "action"
             [] f \in {"-T", "-K", "-R"} -> f
             [] OTHER                    -> "log"

NoEntry == [want |-> None, given |-> [s \in Slots |-> None]]

\* The option that w completes, w itself if it takes no value, and what it has so far.
Option(s, w) == IF s.want = None THEN w ELSE s.want
Before(s, w) == s.given[Slot(Option(s, w))]

Fed(s, w, admitted) ==
  CASE s = Refused -> Refused
    [] s # Refused /\ s.want = None /\ w \in ValueFlags -> [s EXCEPT !.want = w]
    [] OTHER ->
         IF admitted
           THEN [want  |-> None,
                 given |-> [s.given EXCEPT ![Slot(Option(s, w))] = <<Option(s, w), w>>]]
           ELSE Refused

Number(w, low, high) == w \in DOMAIN Value /\ Value[w] \in low..high

\* -B is for main, which takes no line that has it (run_batch drops the batch).
AdmitsC(s, w) ==
  LET f == Option(s, w) IN
  /\ w # "-B"
  /\ Slot(f) \in {"person", "action", "log"} => Before(s, w) = None
  /\ CASE f = "-T"           -> Number(w, 1, MaxInt)
       [] f = "-R"           -> Number(w, 0, MaxInt)
       [] f = "-K"           -> w \in Alnum
       [] f \in {"-E", "-G"} -> w \in Alpha
       [] f \in {"-A", "-L"} -> TRUE
       [] OTHER              -> w \in PathC

\* The name, which no other replaces, is looked at here and not at the end.
AdmitsRust(s, w) ==
  LET f == Option(s, w) IN
  /\ Slot(f) \in {"person", "action", "log"} => Before(s, w) = None
  /\ CASE f = "-T"           -> w \in DOMAIN Value
       [] f = "-R"           -> Number(w, 0, MaxU32)
       [] f \in {"-E", "-G"} -> w \in Alpha
       [] f \in {"-K", "-A", "-L"} -> TRUE
       [] OTHER              -> w \notin Dashed

\* Mutant of AdmitsJava: rooms are parsed as the timestamp is.
AdmitsJavaRoom0(s, w) ==
  LET f == Option(s, w) IN
  /\ Slot(f) \in {"person", "log"} => Before(s, w) = None
  /\ CASE f = "-T"           -> w \in DOMAIN Value
       [] f = "-R"           -> Number(w, 1, MaxInt)
       [] f \in {"-E", "-G"} -> w \in Alpha
       [] f \in {"-K", "-A", "-L"} -> TRUE
       [] OTHER              -> w # "-B"

\* A second -A or -L is no error; a loose word is the log whatever it starts with.
AdmitsJava(s, w) ==
  LET f == Option(s, w) IN
  /\ Slot(f) \in {"person", "log"} => Before(s, w) = None
  /\ CASE f = "-T"           -> w \in DOMAIN Value
       [] f = "-R"           -> Number(w, 0, MaxInt)
       [] f \in {"-E", "-G"} -> w \in Alpha
       [] f \in {"-K", "-A", "-L"} -> TRUE
       [] OTHER              -> w # "-B"

\* At the end of the line, for all three: nothing but the room may be missing.
Complete(s) == /\ s # Refused
               /\ s.want = None
               /\ \A t \in Slots \ {"-R"} : s.given[t] # None

AppendsC(s) == Complete(s)

AppendsRust(s) == /\ Complete(s)
                  /\ Value[s.given["-T"][2]] > 0
                  /\ s.given["-K"][2] \in Alnum

AppendsJava(s) == /\ Complete(s)
                  /\ Number(s.given["-T"][2], 1, MaxInt)
                  /\ s.given["-K"][2] \in Alnum
                  /\ s.given["log"][2] \in PathJava

FeedAppend(w) ==
  /\ program = "append"
  /\ c'    = Fed(c, w, AdmitsC(c, w))
  /\ rust' = Fed(rust, w, AdmitsRust(rust, w))
  /\ java' = Fed(java, w, AdmitsJava(java, w))
  /\ UNCHANGED <<program, count, direct>>

------------------------------------------------------------------------------
(* logread of Rust and Java: names are looked at when they come (Rust: at the   *)
(* end), the token, of which Rust takes the last, at the end.                   *)

NoQuestion == [want |-> None, token |-> None, mode |-> None, log |-> None,
               persons |-> << >>]

AskedRust(s, w) ==
  IF s = Refused THEN Refused
  ELSE CASE s.want = "-K"  -> [s EXCEPT !.want = None, !.token = w]
         [] s.want \in {"-E", "-G"} ->
              IF w \in Alpha
                THEN [s EXCEPT !.want = None, !.persons = Append(@, <<s.want, w>>)]
                ELSE Refused
         [] OTHER ->
              CASE w \in AskFlags -> [s EXCEPT !.want = w]
                [] w \in Modes    -> IF s.mode \in {None, w} THEN [s EXCEPT !.mode = w]
                                     ELSE Refused
                [] OTHER          -> IF s.log = None /\ w \notin Dashed
                                       THEN [s EXCEPT !.log = w] ELSE Refused

AskedJava(s, w) ==
  IF s = Refused THEN Refused
  ELSE CASE s.want = "-K"  -> IF s.token = None THEN [s EXCEPT !.want = None, !.token = w]
                              ELSE Refused
         [] s.want \in {"-E", "-G"} ->
              IF w \in Alpha /\ \A i \in 1..Len(s.persons) : s.persons[i] # <<s.want, w>>
                THEN [s EXCEPT !.want = None, !.persons = Append(@, <<s.want, w>>)]
                ELSE Refused
         [] OTHER ->
              CASE w \in AskFlags -> [s EXCEPT !.want = w]
                [] w \in Modes    -> IF s.mode = None THEN [s EXCEPT !.mode = w] ELSE Refused
                [] OTHER          -> IF s.log = None THEN [s EXCEPT !.log = w] ELSE Refused

\* -S takes nobody, -R one person, -I somebody.
Asks(s) == /\ s # Refused
           /\ s.want = None /\ s.token \in Alnum /\ s.log # None /\ s.mode # None
           /\ CASE s.mode = "-S" -> s.persons = << >>
                [] s.mode = "-R" -> Len(s.persons) = 1
                [] s.mode = "-I" -> s.persons # << >>

AsksJava(s) == Asks(s) /\ s.log \in PathJava

(* logread of C: the first pass counts the persons right after the first -I,    *)
(* and makes room for as many names. The second fills them in; before -I, and   *)
(* in the other modes, the one name is the person asked about. Other flags, and *)
(* a last flag without a value, are passed over, and nothing is validated but   *)
(* the path.                                                                    *)

NotSeen == [at |-> "scan", n |-> 0]

\* Mutant of Counted: a -G ends the run.
CountedEmployees(k, w) ==
  CASE k.at = "scan" /\ w = "-I" -> [k EXCEPT !.at = "run"]
    [] k.at = "run"   -> [k EXCEPT !.at = IF w = "-E" THEN "value" ELSE "done"]
    [] k.at = "value" -> IF w \in Dashed THEN [k EXCEPT !.at = "done"]
                         ELSE [at |-> "run", n |-> k.n + 1]
    [] OTHER -> k

\* Mutant of Counted: the run goes on after other words.
CountedOn(k, w) ==
  CASE k.at = "scan" /\ w = "-I" -> [k EXCEPT !.at = "run"]
    [] k.at = "run"   -> [k EXCEPT !.at = IF w \in {"-E", "-G"} THEN "value" ELSE "run"]
    [] k.at = "value" -> [at |-> "run", n |-> k.n + 1]
    [] OTHER -> k

Counted(k, w) ==
  CASE k.at = "scan" /\ w = "-I" -> [k EXCEPT !.at = "run"]
    [] k.at = "run"   -> [k EXCEPT !.at = IF w \in {"-E", "-G"} THEN "value" ELSE "done"]
    [] k.at = "value" -> IF w \in Dashed THEN [k EXCEPT !.at = "done"]
                         ELSE [at |-> "run", n |-> k.n + 1]
    [] OTHER -> k

NoCommand == [want |-> None, token |-> None, mode |-> None, log |-> None,
              query |-> None, names |-> << >>]

AskedC(s, w) ==
  IF s = Refused THEN Refused
  ELSE CASE s.want = "-K" -> IF s.token = None THEN [s EXCEPT !.want = None, !.token = w]
                             ELSE Refused
         [] s.want \in {"-E", "-G"} ->
              IF s.mode = "-I"
                THEN [s EXCEPT !.want = None, !.names = Append(@, <<s.want, w>>)]
                ELSE IF s.query = None
                       THEN [s EXCEPT !.want = None, !.query = <<s.want, w>>]
                       ELSE Refused
         [] OTHER ->
              CASE w \in AskFlags -> [s EXCEPT !.want = w]
                [] w \in Modes    -> IF s.mode = None THEN [s EXCEPT !.mode = w] ELSE Refused
                [] w \in Dashed \ (AskFlags \cup Modes) -> s
                [] OTHER          -> IF s.log = None /\ w \in PathC
                                       THEN [s EXCEPT !.log = w] ELSE Refused

AsksC(s) == /\ s # Refused
            /\ s.token # None /\ s.log # None /\ s.mode # None
            /\ s.mode = "-R" => s.query # None

\* Names beyond the capacity are skipped.
PersonsC(s, k) ==
  CASE s.mode = "-S" -> << >>
    [] s.mode = "-R" -> <<s.query>>
    [] s.mode = "-I" -> SubSeq(s.names, 1, IF Len(s.names) < k.n THEN Len(s.names) ELSE k.n)

\* The history is kept of lines whose flags are no other flag's value.
Directly(d, w) ==
  CASE d.at = "scan" /\ w = "-I"                -> [d EXCEPT !.at = "run"]
    [] d.at = "run" /\ w \in {"-E", "-G"}       -> [d EXCEPT !.at = w]
    [] d.at = "run" /\ w \notin {"-E", "-G"}    -> [d EXCEPT !.at = "done"]
    [] d.at \in {"-E", "-G"} -> [at |-> "run", persons |-> Append(d.persons, <<d.at, w>>)]
    [] OTHER                                    -> d

FeedRead(w) ==
  /\ program = "read"
  /\ c'      = AskedC(c, w)
  /\ rust'   = AskedRust(rust, w)
  /\ java'   = AskedJava(java, w)
  /\ count'  = Counted(count, w)
  /\ direct' = Directly(direct, w)
  /\ Len(direct'.persons) <= MaxNames
  /\ c' # Refused => Len(c'.names) <= MaxNames
  /\ rust' # Refused => Len(rust'.persons) <= MaxNames
  /\ UNCHANGED program

------------------------------------------------------------------------------
Init == /\ count  = NotSeen
        /\ direct = [at |-> "scan", persons |-> << >>]
        /\ \/ /\ program = "append"
              /\ c = NoEntry /\ rust = NoEntry /\ java = NoEntry
           \/ /\ program = "read"
              /\ c = NoCommand /\ rust = NoQuestion /\ java = NoQuestion

Next == \E w \in Words : FeedAppend(w) \/ FeedRead(w)

Spec == Init /\ [][Next]_vars

------------------------------------------------------------------------------
\* Type invariant.
TypeOK ==
  /\ program \in {"append", "read"}
  /\ count \in [at: {"scan", "run", "value", "done"}, n: 0..MaxNames]
  /\ program = "append" => {c, rust, java} \subseteq Line \cup {Refused}
  /\ program = "read" => /\ {rust, java} \subseteq Question \cup {Refused}
                         /\ c \in Command \cup {Refused}

(* What the C logappend accepts, the Rust and the Java one accept too, and all  *)
(* that accept a line enter the same: the checks one of them makes at once and  *)
(* another at the end, on the last value only, or not at all, let no line mean  *)
(* two things.                                                                  *)
AppendLinesAgree ==
  program = "append" =>
    /\ AppendsC(c) => /\ AppendsRust(rust) /\ AppendsJava(java)
                      /\ rust.given = c.given
    /\ AppendsRust(rust) /\ AppendsJava(java) => rust.given = java.given

\* ps is a run of qs.
Within(ps, qs) == \E i \in 0..Len(qs) :
                    i + Len(ps) <= Len(qs) /\ \A j \in 1..Len(ps) : ps[j] = qs[i + j]

(* Where the Rust and the C logread both take a line, token, mode and log are   *)
(* the same, and so are the persons, but for -I: C then asks about the persons  *)
(* right after the -I, each of them, in order and with nobody between them,     *)
(* since what the first pass counted is what the second one fills in; those     *)
(* that come before the -I or after another word, it forgets. Java takes no     *)
(* line that means anything else to Rust, and what it takes, with a path of the *)
(* common characters and the persons of -I right after it, all three take.      *)
ReadLinesAgree ==
  program = "read" =>
    /\ Asks(rust) /\ AsksC(c) =>
         /\ <<c.token, c.mode, c.log>> = <<rust.token, rust.mode, rust.log>>
         /\ c.mode # "-I" => PersonsC(c, count) = rust.persons
         /\ c.mode = "-I" => /\ PersonsC(c, count) = direct.persons
                             /\ Within(direct.persons, rust.persons)
    /\ Asks(rust) /\ AsksJava(java) => rust = java
    /\ /\ AsksJava(java) /\ java.log \in PathC
       /\ java.mode = "-I" => direct.persons = java.persons
       => Asks(rust) /\ AsksC(c)
===============================================================================
