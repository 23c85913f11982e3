--------------------------- MODULE Arguments_proofs ---------------------------
(* Proofs about Arguments, for any words and lines of any length. The parsers  *)
(* of logappend that have refused nothing hold the same. Those of logread hold *)
(* the same but for the persons, which the C program keeps in two parts; what  *)
(* it counts and what came directly after the -I run side by side.             *)
EXTENDS Arguments, TLAPS, SequenceTheorems

------------------------------------------------------------------------------
(* The inductive invariant *)

\* What the C logappend has checked of the values it has.
Checked(s) ==
  /\ s.given["-T"] # None => Number(s.given["-T"][2], 1, MaxInt)
  /\ s.given["-K"] # None => s.given["-K"][2] \in Alnum
  /\ s.given["log"] # None => s.given["log"][2] \in PathC

AppendInv ==
  program = "append" =>
    /\ c # Refused => rust = c /\ java = c /\ Checked(c)
    /\ rust # Refused /\ java # Refused => rust = java

\* The persons of a line as the C program keeps them.
Both(query, names) == (IF query = None THEN << >> ELSE <<query>>) \o names

\* The same question so far. names has the persons after the -I.
Same(s, k) ==
  /\ s.want = k.want /\ s.token = k.token /\ s.mode = k.mode /\ s.log = k.log
  /\ s.persons = Both(k.query, k.names)
  /\ k.mode # "-I" => k.names = << >>

\* A token that Asks takes, or none yet; a path that the C program takes, or none yet.
Clean(s)  == s.token \in {None} \cup Alnum
Common(s) == s.log \in {None} \cup PathC

DirectType ==
  direct \in [at: {"scan", "run", "done", "-E", "-G"}, persons: Seq(Who)]

\* The first pass of the C program and the history.
InStep ==
  /\ count.n <= Len(direct.persons) /\ Len(direct.persons) <= MaxNames
  /\ count.at # "done" => /\ count.n = Len(direct.persons)
                          /\ count.at = "scan" <=> direct.at = "scan"
                          /\ count.at = "run" <=> direct.at = "run"
                          /\ count.at = "value" <=> direct.at \in {"-E", "-G"}

\* The parser s and the history.
Traced(s, d, k) ==
  /\ d.at = "scan" <=> s.mode # "-I"
  /\ d.at = "scan" => d.persons = << >>
  /\ d.at = "run" => s.want = None
  /\ d.at \in {"-E", "-G"} => s.want = d.at
  /\ k.at = "done" => d.at = "done" /\ k.n = Len(d.persons)

\* The persons directly after the -I are the first ones after it.
Leading(names, d) ==
  /\ Len(d.persons) <= Len(names)
  /\ \A i \in 1..Len(d.persons) : names[i] = d.persons[i]
  /\ d.at # "done" => names = d.persons

\* More persons before the -I than the C program takes.
TooMany(s, d) ==
  /\ Len(s.persons) >= 2
  /\ s.mode = "-I" => Len(d.persons) < Len(s.persons)

ReadInv ==
  program = "read" =>
    /\ InStep
    /\ rust # Refused /\ java # Refused => rust = java
    /\ rust # Refused /\ c # Refused => Same(rust, c)
    /\ rust # Refused /\ Clean(rust) /\ (c # Refused \/ java # Refused) =>
         Traced(rust, direct, count)
    /\ rust # Refused /\ c # Refused /\ Clean(rust) => Leading(c.names, direct)
    /\ java # Refused /\ Clean(java) /\ Common(java) =>
         rust # Refused /\ (c # Refused \/ TooMany(java, direct))

IInv == TypeOK /\ DirectType /\ AppendInv /\ ReadInv

------------------------------------------------------------------------------
(* Words and their classes *)

LEMMA WordClasses ==
  /\ Alpha \subseteq Words /\ Alnum \subseteq Words /\ PathC \subseteq Words
  /\ Alpha \subseteq PathC /\ Alnum \subseteq PathC
  /\ \A w \in Flags :
       w \in Words /\ w \in Dashed /\ w \notin PathC /\ w \notin Alnum /\ w \notin Alpha
  /\ \A w \in Words : w # None
  /\ ValueFlags \subseteq Flags /\ AskFlags \subseteq Flags /\ Modes \subseteq Flags
  /\ {"-A", "-L", "-B"} \subseteq Flags
  /\ None \notin Flags
<1>1. /\ Flags \subseteq Words \cap Dashed
      /\ Alpha \subseteq Alnum /\ Alnum \subseteq PathC
      /\ PathC \subseteq PathJava /\ PathJava \subseteq Words /\ Dashed \cap PathC = {}
  BY WordsAssumption
<1>2. ValueFlags \subseteq Flags /\ Modes \subseteq Flags /\ {"-A", "-L", "-B"} \subseteq Flags
  BY DEF Flags
<1>3. AskFlags \subseteq Flags BY DEF Flags, ValueFlags, AskFlags
<1> QED BY <1>1, <1>2, <1>3, NullsAssumption

\* Lines, questions and commands are none of them refused.
LEMMA NotRefused ==
  ASSUME NEW s
  PROVE  s \in Line \/ s \in Question \/ s \in Command => s # Refused
BY NullsAssumption

------------------------------------------------------------------------------
(* logappend *)

\* The slot of an option.
LEMMA SlotOf ==
  ASSUME NEW f
  PROVE  /\ Slot(f) \in Slots
         /\ Slot(f) = "-T" <=> f = "-T"
         /\ Slot(f) = "-K" <=> f = "-K"
         /\ Slot(f) = "-R" <=> f = "-R"
         /\ Slot(f) = "person" <=> f \in {"-E", "-G"}
         /\ Slot(f) = "action" <=> f \in {"-A", "-L"}
         /\ Slot(f) = "log" <=> f \notin {"-T", "-K", "-R", "-E", "-G", "-A", "-L"}
<1>1. CASE f \in {"-E", "-G"} BY <1>1 DEF Slot, Slots
<1>2. CASE f \in {"-A", "-L"} BY <1>2 DEF Slot, Slots
<1>3. CASE f \in {"-T", "-K", "-R"} BY <1>3 DEF Slot, Slots
<1>4. CASE f \notin {"-T", "-K", "-R", "-E", "-G", "-A", "-L"} BY <1>4 DEF Slot, Slots
<1> QED BY <1>1, <1>2, <1>3, <1>4

\* A word fed to a parser that has refused nothing.
LEMMA FedIs ==
  ASSUME NEW s \in Line, NEW w \in Words, NEW admitted
  PROVE  /\ Fed(s, w, admitted) \in Line \cup {Refused}
         /\ s.want = None /\ w \in ValueFlags => Fed(s, w, admitted) = [s EXCEPT !.want = w]
         /\ ~ (s.want = None /\ w \in ValueFlags) =>
              Fed(s, w, admitted) =
                IF admitted
                  THEN [want  |-> None,
                        given |-> [s.given EXCEPT ![Slot(Option(s, w))] = <<Option(s, w), w>>]]
                  ELSE Refused
<1>1. s # Refused BY NotRefused
<1>2. s.want \in ValueFlags \cup {None} /\ s.given \in [Slots -> {None} \cup (Words \X Words)]
  BY DEF Line
<1>3. Option(s, w) \in Words BY <1>2, WordClasses DEF Option
<1>4. [s EXCEPT !.want = w] \in Line \/ w \notin ValueFlags BY DEF Line
<1>5. [want  |-> None,
       given |-> [s.given EXCEPT ![Slot(Option(s, w))] = <<Option(s, w), w>>]] \in Line
  BY <1>2, <1>3, SlotOf DEF Line
<1>6. CASE s.want = None /\ w \in ValueFlags BY <1>1, <1>4, <1>6 DEF Fed
<1>7. CASE ~ (s.want = None /\ w \in ValueFlags) BY <1>1, <1>5, <1>7 DEF Fed
<1> QED BY <1>6, <1>7

\* What the C program admits, the others admit.
LEMMA AdmitsMore ==
  ASSUME NEW s \in Line, NEW w \in Words, AdmitsC(s, w)
  PROVE  AdmitsRust(s, w) /\ AdmitsJava(s, w)
<1> DEFINE f == Option(s, w)
<1>1. Slot(f) \in {"person", "action", "log"} => Before(s, w) = None BY DEF AdmitsC
<1>2. w # "-B" BY DEF AdmitsC
<1> HIDE DEF f
<1>3. ASSUME Number(w, 0, MaxInt) PROVE w \in DOMAIN Value /\ Number(w, 0, MaxU32)
  BY <1>3, WordsAssumption DEF Number
<1>4. CASE f = "-T"
  <2>1. Number(w, 1, MaxInt) BY <1>4 DEF AdmitsC, f
  <2>2. w \in DOMAIN Value BY <2>1 DEF Number
  <2> QED BY <1>1, <1>4, <2>2, SlotOf DEF AdmitsRust, AdmitsJava, f
<1>5. CASE f = "-R"
  <2>1. Number(w, 0, MaxInt) BY <1>5 DEF AdmitsC, f
  <2> QED BY <1>1, <1>3, <1>5, <2>1, SlotOf DEF AdmitsRust, AdmitsJava, f
<1>6. CASE f \in {"-K", "-A", "-L"}
  BY <1>1, <1>6, SlotOf DEF AdmitsRust, AdmitsJava, f
<1>7. CASE f \in {"-E", "-G"}
  <2>1. w \in Alpha BY <1>7 DEF AdmitsC, f
  <2> QED BY <1>1, <1>7, <2>1, SlotOf DEF AdmitsRust, AdmitsJava, f
<1>8. CASE f \notin {"-T", "-K", "-R", "-E", "-G", "-A", "-L"}
  <2>1. w \in PathC BY <1>8 DEF AdmitsC, f
  <2>2. w \notin Dashed BY <2>1, WordsAssumption
  <2> QED BY <1>1, <1>2, <1>8, <2>2, SlotOf DEF AdmitsRust, AdmitsJava, f
<1> QED BY <1>4, <1>5, <1>6, <1>7, <1>8

\* What the C program stores is checked.
LEMMA StaysChecked ==
  ASSUME NEW s \in Line, NEW w \in Words, Checked(s),
         NEW t, t = Fed(s, w, AdmitsC(s, w)), t # Refused
  PROVE  Checked(t)
<1> DEFINE f == Option(s, w)
<1>1. CASE s.want = None /\ w \in ValueFlags
  <2>1. t = [s EXCEPT !.want = w] BY <1>1, FedIs
  <2>2. t.given = s.given BY <2>1 DEF Line
  <2> QED BY <2>2 DEF Checked
<1>2. CASE ~ (s.want = None /\ w \in ValueFlags)
  <2>1. AdmitsC(s, w) /\ t.given = [s.given EXCEPT ![Slot(f)] = <<f, w>>]
    BY <1>2, FedIs
  <2>2. DOMAIN s.given = Slots BY DEF Line
  <2>3. Slot(f) \in Slots BY SlotOf
  <2>4. t.given[Slot(f)] = <<f, w>> /\ <<f, w>>[2] = w BY <2>1, <2>2, <2>3
  <2>5. \A x \in Slots : x # Slot(f) => t.given[x] = s.given[x] BY <2>1, <2>2
  <2> HIDE DEF f
  <2>6. {"-T", "-K", "log"} \subseteq Slots BY DEF Slots
  <2>7. CASE f = "-T"
    <3>1. Number(w, 1, MaxInt) BY <2>1, <2>7 DEF AdmitsC, f
    <3>2. Slot(f) = "-T" BY <2>7, SlotOf
    <3> QED BY <2>4, <2>5, <2>6, <3>1, <3>2 DEF Checked
  <2>8. CASE f = "-K"
    <3>1. w \in Alnum BY <2>1, <2>8 DEF AdmitsC, f
    <3>2. Slot(f) = "-K" BY <2>8, SlotOf
    <3> QED BY <2>4, <2>5, <2>6, <3>1, <3>2 DEF Checked
  <2>9. CASE f \notin {"-T", "-K", "-R", "-E", "-G", "-A", "-L"}
    <3>1. w \in PathC BY <2>1, <2>9 DEF AdmitsC, f
    <3>2. Slot(f) = "log" BY <2>9, SlotOf
    <3> QED BY <2>4, <2>5, <2>6, <3>1, <3>2 DEF Checked
  <2>10. CASE f \in {"-R", "-E", "-G", "-A", "-L"}
    <3>1. Slot(f) \notin {"-T", "-K", "log"} BY <2>10, SlotOf
    <3> QED BY <2>5, <2>6, <3>1 DEF Checked
  <2> QED BY <2>7, <2>8, <2>9, <2>10
<1> QED BY <1>1, <1>2

\* Parsers that hold the same and both go on hold the same again.
LEMMA FedAlike ==
  ASSUME NEW s \in Line, NEW w \in Words, NEW a, NEW b,
         Fed(s, w, a) # Refused, Fed(s, w, b) # Refused
  PROVE  Fed(s, w, a) = Fed(s, w, b)
<1>1. CASE s.want = None /\ w \in ValueFlags BY <1>1, FedIs
<1>2. CASE ~ (s.want = None /\ w \in ValueFlags)
  <2>1. a /\ b BY <1>2, FedIs
  <2> QED BY <1>2, <2>1, FedIs
<1> QED BY <1>1, <1>2

LEMMA AppendKeeps ==
  ASSUME IInv, NEW w \in Words, FeedAppend(w)
  PROVE  IInv'
<1>1. program = "append" /\ program' = program /\ count' = count /\ direct' = direct
  BY DEF FeedAppend
<1>2. c \in Line \cup {Refused} /\ rust \in Line \cup {Refused} /\ java \in Line \cup {Refused}
  BY <1>1 DEF IInv, TypeOK
<1>3. /\ c # Refused => rust = c /\ java = c /\ Checked(c)
      /\ rust # Refused /\ java # Refused => rust = java
  BY <1>1 DEF IInv, AppendInv
<1>4. /\ c' = Fed(c, w, AdmitsC(c, w)) /\ rust' = Fed(rust, w, AdmitsRust(rust, w))
      /\ java' = Fed(java, w, AdmitsJava(java, w))
  BY DEF FeedAppend
<1>5. \A a : Fed(Refused, w, a) = Refused BY DEF Fed
<1>6. c' \in Line \cup {Refused} /\ rust' \in Line \cup {Refused} /\ java' \in Line \cup {Refused}
  BY <1>2, <1>4, <1>5, FedIs
<1>7. c' # Refused => c # Refused /\ c \in Line BY <1>2, <1>4, <1>5
<1>8. c' # Refused => rust' = c' /\ java' = c' /\ Checked(c')
  <2>1. SUFFICES ASSUME c' # Refused PROVE rust' = c' /\ java' = c' /\ Checked(c') OBVIOUS
  <2>2. c \in Line /\ rust = c /\ java = c /\ Checked(c) BY <1>3, <1>7, <2>1
  <2>3. CASE c.want = None /\ w \in ValueFlags
    <3>1. rust' = c' /\ java' = c' BY <1>4, <2>2, <2>3, FedIs
    <3> QED BY <1>4, <2>1, <2>2, <3>1, StaysChecked
  <2>4. CASE ~ (c.want = None /\ w \in ValueFlags)
    <3>1. AdmitsC(c, w) BY <1>4, <2>1, <2>2, <2>4, FedIs
    <3>2. AdmitsRust(c, w) /\ AdmitsJava(c, w) BY <2>2, <3>1, AdmitsMore
    <3>3. rust' = c' /\ java' = c' BY <1>4, <2>2, <2>4, <3>1, <3>2, FedIs
    <3> QED BY <1>4, <2>1, <2>2, <3>3, StaysChecked
  <2> QED BY <2>3, <2>4
<1>9. rust' # Refused /\ java' # Refused => rust' = java'
  <2>1. SUFFICES ASSUME rust' # Refused, java' # Refused PROVE rust' = java' OBVIOUS
  <2>2. rust \in Line /\ java = rust BY <1>2, <1>3, <1>4, <1>5, <2>1
  <2> QED BY <1>4, <2>1, <2>2, FedAlike
<1>10. TypeOK' BY <1>1, <1>6 DEF IInv, TypeOK
<1>11. AppendInv' BY <1>8, <1>9 DEF AppendInv, Checked
<1>12. ReadInv' BY <1>1 DEF ReadInv
<1>13. DirectType' BY <1>1 DEF IInv, DirectType
<1> QED BY <1>1, <1>10, <1>11, <1>12, <1>13 DEF IInv

------------------------------------------------------------------------------
(* logread: what a word does to each parser *)

Asked(want, token, mode, log, persons) ==
  [want |-> want, token |-> token, mode |-> mode, log |-> log, persons |-> persons]

Commanded(want, token, mode, log, query, names) ==
  [want |-> want, token |-> token, mode |-> mode, log |-> log, query |-> query, names |-> names]

\* What stands at a word: a value, a flag that wants one, a mode, or a loose word.
LEMMA WordCases ==
  ASSUME NEW want \in AskFlags \cup {None}, NEW w \in Words
  PROVE  \/ want = "-K"
         \/ want \in {"-E", "-G"}
         \/ want = None /\ w \in AskFlags
         \/ want = None /\ w \in Modes
         \/ want = None /\ w \notin AskFlags /\ w \notin Modes
BY DEF AskFlags

LEMMA NoneIsNoFlag ==
  /\ None \notin AskFlags /\ None \notin Modes /\ None # "-K" /\ None \notin {"-E", "-G"}
  /\ None # "-I" /\ None # "-S" /\ None # "-R"
  /\ \A w \in AskFlags : w \notin Modes /\ w # "-I"
  /\ \A w \in Modes : w \notin AskFlags
<1>1. AskFlags \subseteq Flags /\ Modes \subseteq Flags /\ None \notin Flags BY WordClasses
<1>2. {"-K", "-E", "-G"} = AskFlags /\ Modes = {"-S", "-R", "-I"} BY DEF AskFlags, Modes
<1> QED BY <1>1, <1>2

RustDoes(s, w, t) ==
  /\ s.want = "-K" => t = Asked(None, w, s.mode, s.log, s.persons)
  /\ s.want \in {"-E", "-G"} =>
       t = IF w \in Alpha
             THEN Asked(None, s.token, s.mode, s.log, Append(s.persons, <<s.want, w>>))
             ELSE Refused
  /\ s.want = None /\ w \in AskFlags => t = Asked(w, s.token, s.mode, s.log, s.persons)
  /\ s.want = None /\ w \in Modes =>
       t = IF s.mode \in {None, w} THEN Asked(None, s.token, w, s.log, s.persons)
           ELSE Refused
  /\ s.want = None /\ w \notin AskFlags /\ w \notin Modes =>
       t = IF s.log = None /\ w \notin Dashed
             THEN Asked(None, s.token, s.mode, w, s.persons) ELSE Refused

LEMMA RustIs ==
  ASSUME NEW s \in Question, NEW w \in Words, NEW t, t = AskedRust(s, w)
  PROVE  t \in Question \cup {Refused} /\ RustDoes(s, w, t)
<1>1. s # Refused BY NotRefused
<1>2. /\ s.want \in AskFlags \cup {None} /\ s.token \in Word /\ s.mode \in Modes \cup {None}
      /\ s.log \in Word /\ s.persons \in Seq(Who) /\ w \in Word
      /\ s = Asked(s.want, s.token, s.mode, s.log, s.persons)
  BY DEF Question, Word, Asked
<1>3. CASE s.want = "-K"
  <2>1. t = Asked(None, w, s.mode, s.log, s.persons)
    BY <1>1, <1>2, <1>3 DEF AskedRust, Asked
  <2> QED BY <1>2, <1>3, <2>1, NoneIsNoFlag DEF Question, Asked, RustDoes
<1>4. CASE s.want \in {"-E", "-G"}
  <2>1. t = IF w \in Alpha
              THEN Asked(None, s.token, s.mode, s.log, Append(s.persons, <<s.want, w>>))
              ELSE Refused
    <3>1. t = IF w \in Alpha
                THEN [s EXCEPT !.want = None, !.persons = Append(s.persons, <<s.want, w>>)]
                ELSE Refused
      BY <1>1, <1>4 DEF AskedRust
    <3>2. ASSUME NEW u, u = [s EXCEPT !.want = None, !.persons = Append(s.persons, <<s.want, w>>)]
          PROVE  u = Asked(None, s.token, s.mode, s.log, Append(s.persons, <<s.want, w>>))
      BY <1>2, <3>2 DEF Asked
    <3> QED BY <3>1, <3>2
  <2>2. Append(s.persons, <<s.want, w>>) \in Seq(Who)
    <3>1. <<s.want, w>> \in Who BY <1>4 DEF Who
    <3> QED BY <1>2, <3>1
  <2> QED BY <1>2, <1>4, <2>1, <2>2, NoneIsNoFlag DEF Question, Asked, RustDoes
<1>5. CASE s.want = None /\ w \in AskFlags
  <2>1. t = Asked(w, s.token, s.mode, s.log, s.persons)
    BY <1>1, <1>2, <1>5, NoneIsNoFlag DEF AskedRust, Asked
  <2> QED BY <1>2, <1>5, <2>1, NoneIsNoFlag DEF Question, Asked, RustDoes
<1>6. CASE s.want = None /\ w \in Modes
  <2>1. t = IF s.mode \in {None, w} THEN Asked(None, s.token, w, s.log, s.persons)
            ELSE Refused
    BY <1>1, <1>2, <1>6, NoneIsNoFlag DEF AskedRust, Asked
  <2> QED BY <1>2, <1>6, <2>1, NoneIsNoFlag DEF Question, Asked, RustDoes
<1>7. CASE s.want = None /\ w \notin AskFlags /\ w \notin Modes
  <2>1. t = IF s.log = None /\ w \notin Dashed
              THEN Asked(None, s.token, s.mode, w, s.persons) ELSE Refused
    BY <1>1, <1>2, <1>7, NoneIsNoFlag DEF AskedRust, Asked
  <2> QED BY <1>2, <1>7, <2>1, NoneIsNoFlag DEF Question, Asked, RustDoes
<1> QED BY <1>2, <1>3, <1>4, <1>5, <1>6, <1>7, WordCases DEF RustDoes

JavaDoes(s, w, t) ==
  /\ s.want = "-K" =>
       t = IF s.token = None THEN Asked(None, w, s.mode, s.log, s.persons) ELSE Refused
  /\ s.want \in {"-E", "-G"} =>
       t = IF w \in Alpha /\ \A i \in 1..Len(s.persons) : s.persons[i] # <<s.want, w>>
             THEN Asked(None, s.token, s.mode, s.log, Append(s.persons, <<s.want, w>>))
             ELSE Refused
  /\ s.want = None /\ w \in AskFlags => t = Asked(w, s.token, s.mode, s.log, s.persons)
  /\ s.want = None /\ w \in Modes =>
       t = IF s.mode = None THEN Asked(None, s.token, w, s.log, s.persons) ELSE Refused
  /\ s.want = None /\ w \notin AskFlags /\ w \notin Modes =>
       t = IF s.log = None THEN Asked(None, s.token, s.mode, w, s.persons) ELSE Refused

LEMMA JavaIs ==
  ASSUME NEW s \in Question, NEW w \in Words, NEW t, t = AskedJava(s, w)
  PROVE  t \in Question \cup {Refused} /\ JavaDoes(s, w, t)
<1>1. s # Refused BY NotRefused
<1>2. /\ s.want \in AskFlags \cup {None} /\ s.token \in Word /\ s.mode \in Modes \cup {None}
      /\ s.log \in Word /\ s.persons \in Seq(Who) /\ w \in Word
      /\ s = Asked(s.want, s.token, s.mode, s.log, s.persons)
  BY DEF Question, Word, Asked
<1>3. CASE s.want = "-K"
  <2>1. t = IF s.token = None THEN Asked(None, w, s.mode, s.log, s.persons) ELSE Refused
    <3>1. t = IF s.token = None THEN [s EXCEPT !.want = None, !.token = w] ELSE Refused
      BY <1>1, <1>3 DEF AskedJava
    <3>2. ASSUME NEW u, u = [s EXCEPT !.want = None, !.token = w]
          PROVE  u = Asked(None, w, s.mode, s.log, s.persons)
      BY <1>2, <3>2 DEF Asked
    <3> QED BY <3>1, <3>2
  <2> QED BY <1>2, <1>3, <2>1, NoneIsNoFlag DEF Question, Asked, JavaDoes
<1>4. CASE s.want \in {"-E", "-G"}
  <2>1. t = IF w \in Alpha /\ \A i \in 1..Len(s.persons) : s.persons[i] # <<s.want, w>>
              THEN Asked(None, s.token, s.mode, s.log, Append(s.persons, <<s.want, w>>))
              ELSE Refused
    <3>1. t = IF w \in Alpha /\ \A i \in 1..Len(s.persons) : s.persons[i] # <<s.want, w>>
                THEN [s EXCEPT !.want = None, !.persons = Append(s.persons, <<s.want, w>>)]
                ELSE Refused
      BY <1>1, <1>4 DEF AskedJava
    <3>2. ASSUME NEW u, u = [s EXCEPT !.want = None, !.persons = Append(s.persons, <<s.want, w>>)]
          PROVE  u = Asked(None, s.token, s.mode, s.log, Append(s.persons, <<s.want, w>>))
      BY <1>2, <3>2 DEF Asked
    <3> QED BY <3>1, <3>2
  <2>2. Append(s.persons, <<s.want, w>>) \in Seq(Who)
    <3>1. <<s.want, w>> \in Who BY <1>4 DEF Who
    <3> QED BY <1>2, <3>1
  <2> QED BY <1>2, <1>4, <2>1, <2>2, NoneIsNoFlag DEF Question, Asked, JavaDoes
<1>5. CASE s.want = None /\ w \in AskFlags
  <2>1. t = Asked(w, s.token, s.mode, s.log, s.persons)
    BY <1>1, <1>2, <1>5, NoneIsNoFlag DEF AskedJava, Asked
  <2> QED BY <1>2, <1>5, <2>1, NoneIsNoFlag DEF Question, Asked, JavaDoes
<1>6. CASE s.want = None /\ w \in Modes
  <2>1. t = IF s.mode = None THEN Asked(None, s.token, w, s.log, s.persons) ELSE Refused
    BY <1>1, <1>2, <1>6, NoneIsNoFlag DEF AskedJava, Asked
  <2> QED BY <1>2, <1>6, <2>1, NoneIsNoFlag DEF Question, Asked, JavaDoes
<1>7. CASE s.want = None /\ w \notin AskFlags /\ w \notin Modes
  <2>1. t = IF s.log = None THEN Asked(None, s.token, s.mode, w, s.persons) ELSE Refused
    BY <1>1, <1>2, <1>7, NoneIsNoFlag DEF AskedJava, Asked
  <2> QED BY <1>2, <1>7, <2>1, NoneIsNoFlag DEF Question, Asked, JavaDoes
<1> QED BY <1>2, <1>3, <1>4, <1>5, <1>6, <1>7, WordCases DEF JavaDoes

CDoes(s, w, t) ==
  /\ s.want = "-K" =>
       t = IF s.token = None THEN Commanded(None, w, s.mode, s.log, s.query, s.names)
           ELSE Refused
  /\ s.want \in {"-E", "-G"} /\ s.mode = "-I" =>
       t = Commanded(None, s.token, s.mode, s.log, s.query, Append(s.names, <<s.want, w>>))
  /\ s.want \in {"-E", "-G"} /\ s.mode # "-I" =>
       t = IF s.query = None
             THEN Commanded(None, s.token, s.mode, s.log, <<s.want, w>>, s.names)
             ELSE Refused
  /\ s.want = None /\ w \in AskFlags =>
       t = Commanded(w, s.token, s.mode, s.log, s.query, s.names)
  /\ s.want = None /\ w \in Modes =>
       t = IF s.mode = None THEN Commanded(None, s.token, w, s.log, s.query, s.names)
           ELSE Refused
  /\ s.want = None /\ w \notin AskFlags /\ w \notin Modes =>
       t = IF w \in Dashed THEN s
           ELSE IF s.log = None /\ w \in PathC
             THEN Commanded(None, s.token, s.mode, w, s.query, s.names) ELSE Refused

LEMMA CIs ==
  ASSUME NEW s \in Command, NEW w \in Words, NEW t, t = AskedC(s, w)
  PROVE  t \in Command \cup {Refused} /\ CDoes(s, w, t)
<1>1. s # Refused BY NotRefused
<1>2. /\ s.want \in AskFlags \cup {None} /\ s.token \in Word /\ s.mode \in Modes \cup {None}
      /\ s.log \in Word /\ s.query \in {None} \cup Who /\ s.names \in Seq(Who) /\ w \in Word
      /\ s = Commanded(s.want, s.token, s.mode, s.log, s.query, s.names)
  BY DEF Command, Word, Commanded
<1>3. CASE s.want = "-K"
  <2>1. t = IF s.token = None THEN Commanded(None, w, s.mode, s.log, s.query, s.names)
            ELSE Refused
    <3>1. t = IF s.token = None THEN [s EXCEPT !.want = None, !.token = w] ELSE Refused
      BY <1>1, <1>3 DEF AskedC
    <3>2. ASSUME NEW u, u = [s EXCEPT !.want = None, !.token = w]
          PROVE  u = Commanded(None, w, s.mode, s.log, s.query, s.names)
      BY <1>2, <3>2 DEF Commanded
    <3> QED BY <3>1, <3>2
  <2> QED BY <1>2, <1>3, <2>1, NoneIsNoFlag DEF Command, Commanded, CDoes
<1>4. CASE s.want \in {"-E", "-G"} /\ s.mode = "-I"
  <2>1. t = Commanded(None, s.token, s.mode, s.log, s.query, Append(s.names, <<s.want, w>>))
    BY <1>1, <1>2, <1>4 DEF AskedC, Commanded
  <2>2. Append(s.names, <<s.want, w>>) \in Seq(Who)
    <3>1. <<s.want, w>> \in Who BY <1>4 DEF Who
    <3> QED BY <1>2, <3>1
  <2> QED BY <1>2, <1>4, <2>1, <2>2, NoneIsNoFlag DEF Command, Commanded, CDoes
<1>5. CASE s.want \in {"-E", "-G"} /\ s.mode # "-I"
  <2>1. t = IF s.query = None
              THEN Commanded(None, s.token, s.mode, s.log, <<s.want, w>>, s.names)
              ELSE Refused
    <3>1. t = IF s.query = None THEN [s EXCEPT !.want = None, !.query = <<s.want, w>>]
              ELSE Refused
      BY <1>1, <1>5 DEF AskedC
    <3>2. ASSUME NEW u, u = [s EXCEPT !.want = None, !.query = <<s.want, w>>]
          PROVE  u = Commanded(None, s.token, s.mode, s.log, <<s.want, w>>, s.names)
      BY <1>2, <3>2 DEF Commanded
    <3> QED BY <3>1, <3>2
  <2>2. <<s.want, w>> \in Who BY <1>5 DEF Who
  <2> QED BY <1>2, <1>5, <2>1, <2>2, NoneIsNoFlag DEF Command, Commanded, CDoes
<1>6. CASE s.want = None /\ w \in AskFlags
  <2>1. t = Commanded(w, s.token, s.mode, s.log, s.query, s.names)
    BY <1>1, <1>2, <1>6, NoneIsNoFlag DEF AskedC, Commanded
  <2> QED BY <1>2, <1>6, <2>1, NoneIsNoFlag DEF Command, Commanded, CDoes
<1>7. CASE s.want = None /\ w \in Modes
  <2>1. t = IF s.mode = None THEN Commanded(None, s.token, w, s.log, s.query, s.names)
            ELSE Refused
    BY <1>1, <1>2, <1>7, NoneIsNoFlag DEF AskedC, Commanded
  <2> QED BY <1>2, <1>7, <2>1, NoneIsNoFlag DEF Command, Commanded, CDoes
<1>8. CASE s.want = None /\ w \notin AskFlags /\ w \notin Modes
  <2>1. t = IF w \in Dashed THEN s
            ELSE IF s.log = None /\ w \in PathC
              THEN Commanded(None, s.token, s.mode, w, s.query, s.names) ELSE Refused
    BY <1>1, <1>2, <1>8, NoneIsNoFlag DEF AskedC, Commanded
  <2> QED BY <1>2, <1>8, <2>1, NoneIsNoFlag DEF Command, Commanded, CDoes
<1> QED BY <1>2, <1>3, <1>4, <1>5, <1>6, <1>7, <1>8, WordCases DEF CDoes

\* Nothing revives a parser.
LEMMA StaysRefused ==
  ASSUME NEW w
  PROVE  /\ AskedRust(Refused, w) = Refused /\ AskedJava(Refused, w) = Refused
         /\ AskedC(Refused, w) = Refused
BY DEF AskedRust, AskedJava, AskedC

\* What the two sequences of persons of the C program come to.
LEMMA BothIs ==
  /\ Both(None, << >>) = << >>
  /\ \A q \in Who, n \in Seq(Who) :
       /\ q # None
       /\ Both(None, n) = n
       /\ Both(q, n) \in Seq(Who) /\ Len(Both(q, n)) = 1 + Len(n)
       /\ Both(q, << >>) = <<q>>
  /\ \A q \in {None} \cup Who, n \in Seq(Who), x \in Who :
       Both(q, Append(n, x)) = Append(Both(q, n), x)
<1>1. Who \subseteq Words \X Words
  BY WordClasses DEF Who, AskFlags
<1>2. \A q \in Who : q # None BY <1>1, NullsAssumption
<1>3. \A n \in Seq(Who) : << >> \o n = n OBVIOUS
<1>4. \A q \in Who, n \in Seq(Who) :
        /\ <<q>> \o n \in Seq(Who) /\ Len(<<q>> \o n) = 1 + Len(n)
        /\ <<q>> \o << >> = <<q>>
  OBVIOUS
<1>5. \A q \in Who, n \in Seq(Who), x \in Who : <<q>> \o Append(n, x) = Append(<<q>> \o n, x)
  OBVIOUS
<1>6. \A n \in Seq(Who), x \in Who : << >> \o Append(n, x) = Append(<< >> \o n, x)
  OBVIOUS
<1>7. << >> \in Seq(Who) OBVIOUS
<1>8. \A n : Both(None, n) = << >> \o n BY DEF Both
<1>9. \A q \in Who : \A n : Both(q, n) = <<q>> \o n BY <1>2 DEF Both
<1>10. \A q \in {None} \cup Who, n \in Seq(Who), x \in Who :
         Both(q, Append(n, x)) = Append(Both(q, n), x)
  <2> TAKE q \in {None} \cup Who, n \in Seq(Who), x \in Who
  <2>1. CASE q = None
    <3>1. Both(q, n) = << >> \o n /\ Both(q, Append(n, x)) = << >> \o Append(n, x)
      BY <1>8, <2>1
    <3> QED BY <1>6, <3>1
  <2>2. CASE q \in Who
    <3>1. Both(q, n) = <<q>> \o n /\ Both(q, Append(n, x)) = <<q>> \o Append(n, x)
      BY <1>9, <2>2
    <3> QED BY <1>5, <2>2, <3>1
  <2> QED BY <2>1, <2>2
<1>11. Both(None, << >>) = << >> BY <1>3, <1>7, <1>8
<1>12. \A q \in Who, n \in Seq(Who) :
         /\ q # None
         /\ Both(None, n) = n
         /\ Both(q, n) \in Seq(Who) /\ Len(Both(q, n)) = 1 + Len(n)
         /\ Both(q, << >>) = <<q>>
  <2> TAKE q \in Who, n \in Seq(Who)
  <2>1. Both(None, n) = << >> \o n BY <1>8
  <2>2. Both(q, n) = <<q>> \o n /\ Both(q, << >>) = <<q>> \o << >> BY <1>9
  <2> QED BY <1>2, <1>3, <1>4, <2>1, <2>2
<1> QED BY <1>10, <1>11, <1>12

\* A word in the history.
DirectDoes(w, e) ==
  /\ direct.at = "scan" => /\ e.persons = direct.persons
                           /\ e.at = IF w = "-I" THEN "run" ELSE "scan"
  /\ direct.at = "run" => /\ e.persons = direct.persons
                          /\ e.at = IF w \in {"-E", "-G"} THEN w ELSE "done"
  /\ direct.at \in {"-E", "-G"} =>
       /\ e.at = "run" /\ <<direct.at, w>> \in Who
       /\ e.persons = Append(direct.persons, <<direct.at, w>>)
  /\ direct.at = "done" => e = direct

LEMMA DirectlyIs ==
  ASSUME DirectType, NEW w \in Words, NEW e, e = Directly(direct, w)
  PROVE  e \in [at: {"scan", "run", "done", "-E", "-G"}, persons: Seq(Who)] /\ DirectDoes(w, e)
<1>1. /\ direct \in [at: {"scan", "run", "done", "-E", "-G"}, persons: Seq(Who)]
      /\ direct.persons \in Seq(Who)
  BY DEF DirectType
<1>2. CASE direct.at = "scan" /\ w = "-I"
  <2>1. e = [direct EXCEPT !.at = "run"] BY <1>2 DEF Directly
  <2> QED BY <1>1, <1>2, <2>1 DEF DirectDoes
<1>3. CASE direct.at = "run" /\ w \in {"-E", "-G"}
  <2>1. e = [direct EXCEPT !.at = w] BY <1>3 DEF Directly
  <2> QED BY <1>1, <1>3, <2>1 DEF DirectDoes
<1>4. CASE direct.at = "run" /\ w \notin {"-E", "-G"}
  <2>1. e = [direct EXCEPT !.at = "done"] BY <1>4 DEF Directly
  <2> QED BY <1>1, <1>4, <2>1 DEF DirectDoes
<1>5. CASE direct.at \in {"-E", "-G"}
  <2>1. e = [at |-> "run", persons |-> Append(direct.persons, <<direct.at, w>>)]
    BY <1>5 DEF Directly
  <2>2. <<direct.at, w>> \in Who BY <1>5 DEF Who
  <2>3. Append(direct.persons, <<direct.at, w>>) \in Seq(Who) BY <1>1, <2>2
  <2> QED BY <1>5, <2>1, <2>2, <2>3 DEF DirectDoes
<1>6. CASE direct.at = "done" \/ (direct.at = "scan" /\ w # "-I")
  <2>1. e = direct BY <1>6 DEF Directly
  <2> QED BY <1>1, <1>6, <2>1 DEF DirectDoes
<1> QED BY <1>1, <1>2, <1>3, <1>4, <1>5, <1>6 DEF DirectDoes

\* A word in the first pass of the C program.
CountDoes(k, w, e) ==
  /\ k.at = "scan" => e.n = k.n /\ e.at = IF w = "-I" THEN "run" ELSE "scan"
  /\ k.at = "run" => e.n = k.n /\ e.at = IF w \in {"-E", "-G"} THEN "value" ELSE "done"
  /\ k.at = "value" /\ w \in Dashed => e.n = k.n /\ e.at = "done"
  /\ k.at = "value" /\ w \notin Dashed => e.n = k.n + 1 /\ e.at = "run"
  /\ k.at = "done" => e = k

LEMMA CountedIs ==
  ASSUME NEW k \in [at: {"scan", "run", "value", "done"}, n: Nat], NEW w \in Words,
         NEW e, e = Counted(k, w)
  PROVE  e \in [at: {"scan", "run", "value", "done"}, n: Nat] /\ CountDoes(k, w, e)
<1>1. CASE k.at = "scan" /\ w = "-I"
  <2>1. e = [k EXCEPT !.at = "run"] BY <1>1 DEF Counted
  <2> QED BY <1>1, <2>1 DEF CountDoes
<1>2. CASE k.at = "run"
  <2>1. e = [k EXCEPT !.at = IF w \in {"-E", "-G"} THEN "value" ELSE "done"]
    BY <1>2 DEF Counted
  <2> QED BY <1>2, <2>1 DEF CountDoes
<1>3. CASE k.at = "value" /\ w \in Dashed
  <2>1. e = [k EXCEPT !.at = "done"] BY <1>3 DEF Counted
  <2> QED BY <1>3, <2>1 DEF CountDoes
<1>4. CASE k.at = "value" /\ w \notin Dashed
  <2>1. e = [at |-> "run", n |-> k.n + 1] BY <1>4 DEF Counted
  <2> QED BY <1>4, <2>1 DEF CountDoes
<1>5. CASE k.at = "done" \/ (k.at = "scan" /\ w # "-I")
  <2>1. e = k BY <1>5 DEF Counted
  <2> QED BY <1>5, <2>1 DEF CountDoes
<1> QED BY <1>1, <1>2, <1>3, <1>4, <1>5 DEF CountDoes

\* The first pass and the history stay in step.
LEMMA StaysInStep ==
  ASSUME DirectType, count \in [at: {"scan", "run", "value", "done"}, n: Nat], InStep,
         NEW w \in Words, count' = Counted(count, w), direct' = Directly(direct, w),
         Len(direct'.persons) <= MaxNames
  PROVE  /\ DirectType' /\ InStep'
         /\ count' \in [at: {"scan", "run", "value", "done"}, n: 0..MaxNames]
<1>1. DirectType' /\ DirectDoes(w, direct') BY DirectlyIs DEF DirectType
<1>2. /\ count' \in [at: {"scan", "run", "value", "done"}, n: Nat]
      /\ CountDoes(count, w, count')
  BY CountedIs
<1>3. /\ direct.persons \in Seq(Who) /\ direct'.persons \in Seq(Who)
      /\ direct.at \in {"scan", "run", "done", "-E", "-G"}
      /\ count.at \in {"scan", "run", "value", "done"} /\ count.n \in Nat
  BY <1>1 DEF DirectType
<1>4. Len(direct.persons) \in Nat /\ Len(direct'.persons) \in Nat BY <1>3
<1>5. \/ direct'.persons = direct.persons
      \/ /\ direct.at \in {"-E", "-G"} /\ Len(direct'.persons) = Len(direct.persons) + 1
         /\ direct'.at = "run"
  <2>1. CASE direct.at \in {"-E", "-G"}
    <3>1. /\ direct'.persons = Append(direct.persons, <<direct.at, w>>)
          /\ <<direct.at, w>> \in Who /\ direct'.at = "run"
      BY <1>1, <2>1 DEF DirectDoes
    <3>2. Len(direct'.persons) = Len(direct.persons) + 1 BY <1>3, <3>1
    <3> QED BY <2>1, <3>1, <3>2
  <2>2. CASE direct.at \notin {"-E", "-G"} BY <1>1, <1>3, <2>2 DEF DirectDoes
  <2> QED BY <2>1, <2>2
<1>6. InStep'
  <2>1. CASE count.at = "done"
    <3>1. count' = count BY <1>2, <2>1 DEF CountDoes
    <3> QED BY <1>3, <1>4, <1>5, <2>1, <3>1 DEF InStep
  <2>2. CASE count.at = "scan"
    <3>1. direct.at = "scan" /\ count.n = Len(direct.persons) BY <2>2 DEF InStep
    <3>2. direct'.persons = direct.persons /\ direct'.at = IF w = "-I" THEN "run" ELSE "scan"
      BY <1>1, <3>1 DEF DirectDoes
    <3>3. count'.n = count.n /\ count'.at = IF w = "-I" THEN "run" ELSE "scan"
      BY <1>2, <2>2 DEF CountDoes
    <3> QED BY <1>4, <3>1, <3>2, <3>3 DEF InStep
  <2>3. CASE count.at = "run"
    <3>1. direct.at = "run" /\ count.n = Len(direct.persons) BY <2>3 DEF InStep
    <3>2. /\ direct'.persons = direct.persons
          /\ direct'.at = IF w \in {"-E", "-G"} THEN w ELSE "done"
      BY <1>1, <3>1 DEF DirectDoes
    <3>3. count'.n = count.n /\ count'.at = IF w \in {"-E", "-G"} THEN "value" ELSE "done"
      BY <1>2, <2>3 DEF CountDoes
    <3> QED BY <1>4, <3>1, <3>2, <3>3 DEF InStep
  <2>4. CASE count.at = "value"
    <3>1. direct.at \in {"-E", "-G"} /\ count.n = Len(direct.persons) BY <2>4 DEF InStep
    <3>2. Len(direct'.persons) = Len(direct.persons) + 1 /\ direct'.at = "run"
      BY <1>1, <1>3, <3>1 DEF DirectDoes
    <3>3. CASE w \in Dashed
      <4>1. count'.n = count.n /\ count'.at = "done" BY <1>2, <2>4, <3>3 DEF CountDoes
      <4> QED BY <1>4, <3>1, <3>2, <4>1 DEF InStep
    <3>4. CASE w \notin Dashed
      <4>1. count'.n = count.n + 1 /\ count'.at = "run" BY <1>2, <2>4, <3>4 DEF CountDoes
      <4> QED BY <1>4, <3>1, <3>2, <4>1 DEF InStep
    <3> QED BY <3>3, <3>4
  <2> QED BY <1>3, <2>1, <2>2, <2>3, <2>4
<1>7. count'.n <= MaxNames
  <2>1. count'.n <= Len(direct'.persons) BY <1>6 DEF InStep
  <2>2. count'.n \in Nat BY <1>2
  <2> QED BY <1>4, <2>1, <2>2, MaxNamesAssumption
<1>8. count' \in [at: {"scan", "run", "value", "done"}, n: 0..MaxNames]
  <2>1. count'.n \in 0..MaxNames BY <1>2, <1>7, MaxNamesAssumption
  <2> QED BY <1>2, <2>1
<1> QED BY <1>1, <1>6, <1>8

\* Where the Rust and the Java program both go on, they go on alike.
LEMMA AskedAlike ==
  ASSUME NEW s \in Question, NEW w \in Words,
         AskedRust(s, w) # Refused, AskedJava(s, w) # Refused
  PROVE  AskedRust(s, w) = AskedJava(s, w)
<1> PICK t : t = AskedRust(s, w) OBVIOUS
<1> PICK u : u = AskedJava(s, w) OBVIOUS
<1>7. RustDoes(s, w, t) /\ JavaDoes(s, w, u) /\ t # Refused /\ u # Refused BY RustIs, JavaIs
<1>8. SUFFICES t = u OBVIOUS
<1>1. s.want \in AskFlags \cup {None} BY DEF Question
<1>2. CASE s.want = "-K" BY <1>2, <1>7 DEF RustDoes, JavaDoes
<1>3. CASE s.want \in {"-E", "-G"} BY <1>3, <1>7 DEF RustDoes, JavaDoes
<1>4. CASE s.want = None /\ w \in AskFlags BY <1>4, <1>7 DEF RustDoes, JavaDoes
<1>5. CASE s.want = None /\ w \in Modes BY <1>5, <1>7 DEF RustDoes, JavaDoes
<1>6. CASE s.want = None /\ w \notin AskFlags /\ w \notin Modes BY <1>6, <1>7 DEF RustDoes, JavaDoes
<1> QED BY <1>1, <1>2, <1>3, <1>4, <1>5, <1>6, WordCases

\* A question that the Rust and the C program both go on with stays the same.
LEMMA StaysSame ==
  ASSUME NEW s \in Question, NEW k \in Command, NEW w \in Words, Same(s, k),
         NEW t, RustDoes(s, w, t), t # Refused, NEW l, CDoes(k, w, l), l # Refused
  PROVE  Same(t, l)
<1>1. /\ k.want = s.want /\ k.token = s.token /\ k.mode = s.mode /\ k.log = s.log
      /\ s.persons = Both(k.query, k.names)
      /\ k.mode # "-I" => k.names = << >>
  BY DEF Same
<1>2. /\ s.want \in AskFlags \cup {None} /\ k.query \in {None} \cup Who /\ k.names \in Seq(Who)
      /\ s.mode \in Modes \cup {None}
  BY DEF Question, Command
<1>3. CASE s.want = "-K"
  <2>1. t = Asked(None, w, s.mode, s.log, s.persons) BY <1>3 DEF RustDoes
  <2>2. l = Commanded(None, w, k.mode, k.log, k.query, k.names) BY <1>1, <1>3 DEF CDoes
  <2> QED BY <1>1, <2>1, <2>2 DEF Same, Asked, Commanded
<1>4. CASE s.want \in {"-E", "-G"}
  <2> PICK x : x = <<s.want, w>> OBVIOUS
  <2>1. x \in Who BY <1>4 DEF Who
  <2>2. t = Asked(None, s.token, s.mode, s.log, Append(s.persons, x)) BY <1>4 DEF RustDoes
  <2>3. CASE k.mode = "-I"
    <3>1. l = Commanded(None, k.token, k.mode, k.log, k.query, Append(k.names, x))
      BY <1>1, <1>4, <2>3 DEF CDoes
    <3>2. Both(k.query, Append(k.names, x)) = Append(s.persons, x)
      <4>1. \A q \in {None} \cup Who, n \in Seq(Who), y \in Who :
              Both(q, Append(n, y)) = Append(Both(q, n), y)
        BY BothIs
      <4>2. Both(k.query, Append(k.names, x)) = Append(Both(k.query, k.names), x)
        BY <1>2, <2>1, <4>1
      <4> QED BY <1>1, <4>2
    <3> QED BY <1>1, <2>2, <2>3, <3>1, <3>2 DEF Same, Asked, Commanded
  <2>4. CASE k.mode # "-I"
    <3>1. k.query = None /\ l = Commanded(None, k.token, k.mode, k.log, x, k.names)
      BY <1>1, <1>4, <2>4 DEF CDoes
    <3>2. k.names = << >> /\ s.persons = << >> BY <1>1, <2>4, <3>1, BothIs
    <3>3. Both(x, k.names) = <<x>> /\ Append(s.persons, x) = <<x>>
      <4>1. << >> \in Seq(Who) OBVIOUS
      <4>2. \A q \in Who : Both(q, << >>) = <<q>> BY <4>1, BothIs
      <4> QED BY <2>1, <3>2, <4>2
    <3> QED BY <1>1, <2>2, <2>4, <3>1, <3>2, <3>3 DEF Same, Asked, Commanded
  <2> QED BY <2>3, <2>4
<1>5. CASE s.want = None /\ w \in AskFlags
  <2>1. t = Asked(w, s.token, s.mode, s.log, s.persons) BY <1>5 DEF RustDoes
  <2>2. l = Commanded(w, k.token, k.mode, k.log, k.query, k.names) BY <1>1, <1>5 DEF CDoes
  <2> QED BY <1>1, <2>1, <2>2 DEF Same, Asked, Commanded
<1>6. CASE s.want = None /\ w \in Modes
  <2>1. t = Asked(None, s.token, w, s.log, s.persons) BY <1>6 DEF RustDoes
  <2>2. k.mode = None /\ l = Commanded(None, k.token, w, k.log, k.query, k.names)
    BY <1>1, <1>6 DEF CDoes
  <2>3. k.names = << >> BY <1>1, <2>2, NoneIsNoFlag
  <2> QED BY <1>1, <2>1, <2>2, <2>3 DEF Same, Asked, Commanded
<1>7. CASE s.want = None /\ w \notin AskFlags /\ w \notin Modes
  <2>1. w \notin Dashed /\ t = Asked(None, s.token, s.mode, w, s.persons)
    BY <1>7 DEF RustDoes
  <2>2. l = Commanded(None, k.token, k.mode, w, k.query, k.names)
    BY <1>1, <1>7, <2>1 DEF CDoes
  <2> QED BY <1>1, <2>1, <2>2 DEF Same, Asked, Commanded
<1> QED BY <1>2, <1>3, <1>4, <1>5, <1>6, <1>7, WordCases

\* What becomes of the token, the mode and the persons.
LEMMA RustHolds ==
  ASSUME NEW s \in Question, NEW w \in Words, NEW t, RustDoes(s, w, t), t # Refused
  PROVE  /\ s.want # "-K" => t.token = s.token
         /\ s.want = "-K" => t.token = w
         /\ s.want # None => t.want = None /\ t.mode = s.mode
         /\ s.want = None => /\ t.want = IF w \in AskFlags THEN w ELSE None
                             /\ t.mode = IF w \in Modes THEN w ELSE s.mode
                             /\ w \in Modes => s.mode \in {None, w}
         /\ s.want \in {"-E", "-G"} =>
              w \in Alpha /\ t.persons = Append(s.persons, <<s.want, w>>)
         /\ s.want \notin {"-E", "-G"} => t.persons = s.persons
<1>1. s.want \in AskFlags \cup {None} BY DEF Question
<1>2. CASE s.want = "-K"
  <2>1. t = Asked(None, w, s.mode, s.log, s.persons) BY <1>2 DEF RustDoes
  <2> QED BY <1>2, <2>1, NoneIsNoFlag DEF Asked
<1>3. CASE s.want \in {"-E", "-G"}
  <2>1. w \in Alpha /\ t = Asked(None, s.token, s.mode, s.log, Append(s.persons, <<s.want, w>>))
    BY <1>3 DEF RustDoes
  <2> QED BY <1>3, <2>1, NoneIsNoFlag DEF Asked
<1>4. CASE s.want = None /\ w \in AskFlags
  <2>1. t = Asked(w, s.token, s.mode, s.log, s.persons) BY <1>4 DEF RustDoes
  <2> QED BY <1>4, <2>1, NoneIsNoFlag DEF Asked
<1>5. CASE s.want = None /\ w \in Modes
  <2>1. s.mode \in {None, w} /\ t = Asked(None, s.token, w, s.log, s.persons)
    BY <1>5 DEF RustDoes
  <2> QED BY <1>5, <2>1, NoneIsNoFlag DEF Asked
<1>6. CASE s.want = None /\ w \notin AskFlags /\ w \notin Modes
  <2>1. t = Asked(None, s.token, s.mode, w, s.persons) BY <1>6 DEF RustDoes
  <2> QED BY <1>6, <2>1, NoneIsNoFlag DEF Asked
<1> QED BY <1>1, <1>2, <1>3, <1>4, <1>5, <1>6, WordCases

\* Names and tokens are no flags.
LEMMA PlainWords ==
  \A w \in Alnum : w \notin Dashed /\ w # "-I" /\ w \notin {"-E", "-G"}
<1>1. "-I" \in Flags /\ "-E" \in Flags /\ "-G" \in Flags BY DEF Flags, ValueFlags, Modes
<1>2. \A w \in Alnum : w \in PathC /\ w \notin Flags BY WordClasses
<1> QED BY <1>1, <1>2, WordsAssumption

\* A parser with a token that Asks takes stays traced.
LEMMA StaysTraced ==
  ASSUME NEW s \in Question, NEW w \in Words, NEW t, RustDoes(s, w, t), t # Refused,
         Traced(s, direct, count), Clean(t), DirectType, InStep,
         count \in [at: {"scan", "run", "value", "done"}, n: Nat],
         DirectDoes(w, direct'), CountDoes(count, w, count')
  PROVE  Traced(t, direct', count')
<1>1. /\ direct.at = "scan" <=> s.mode # "-I"
      /\ direct.at = "scan" => direct.persons = << >>
      /\ direct.at = "run" => s.want = None
      /\ direct.at \in {"-E", "-G"} => s.want = direct.at
      /\ count.at = "done" => direct.at = "done" /\ count.n = Len(direct.persons)
  BY DEF Traced
<1>2. /\ direct.at \in {"scan", "run", "done", "-E", "-G"}
      /\ count.at \in {"scan", "run", "value", "done"}
      /\ s.want \in AskFlags \cup {None}
  BY DEF DirectType, Question
<1>3. count.at # "done" => /\ count.n = Len(direct.persons)
                           /\ count.at = "scan" <=> direct.at = "scan"
                           /\ count.at = "run" <=> direct.at = "run"
                           /\ count.at = "value" <=> direct.at \in {"-E", "-G"}
  BY DEF InStep
<1>4. CASE direct.at = "scan"
  <2>1. /\ direct'.persons = << >> /\ direct'.at = IF w = "-I" THEN "run" ELSE "scan"
        /\ count'.at # "done"
    BY <1>1, <1>2, <1>3, <1>4 DEF DirectDoes, CountDoes
  <2>2. s.want \in {"-E", "-G"} => w # "-I" BY RustHolds, WordsAssumption, PlainWords
  <2>3. s.want = "-K" => w # "-I"
    <3>1. s.want = "-K" => w = t.token BY RustHolds
    <3> QED BY <3>1, WordClasses, PlainWords DEF Clean
  <2>4. s.want # None => w # "-I" /\ t.mode = s.mode /\ t.want = None
    BY <1>2, <2>2, <2>3, RustHolds DEF AskFlags
  <2>5. s.want = None => /\ t.mode = IF w \in Modes THEN w ELSE s.mode
                         /\ t.want = IF w \in AskFlags THEN w ELSE None
    BY RustHolds
  <2>6. "-I" \in Modes /\ "-I" \notin AskFlags BY DEF Modes, AskFlags
  <2> QED BY <1>1, <1>4, <2>1, <2>4, <2>5, <2>6 DEF Traced
<1>5. CASE direct.at = "run"
  <2>1. s.want = None /\ s.mode = "-I" BY <1>1, <1>5
  <2>2. direct'.persons = direct.persons /\ direct'.at = IF w \in {"-E", "-G"} THEN w ELSE "done"
    BY <1>5 DEF DirectDoes
  <2>3. count.at = "run" /\ count.n = Len(direct.persons) BY <1>1, <1>3, <1>5
  <2>4. count'.n = count.n /\ count'.at = IF w \in {"-E", "-G"} THEN "value" ELSE "done"
    BY <2>3 DEF CountDoes
  <2>5. /\ t.want = IF w \in AskFlags THEN w ELSE None
        /\ t.mode = IF w \in Modes THEN w ELSE s.mode
        /\ w \in Modes => s.mode \in {None, w}
    BY <2>1, RustHolds
  <2>6. t.mode = "-I" BY <2>1, <2>5, NoneIsNoFlag
  <2>7. CASE w \in {"-E", "-G"}
    <3>1. w \in AskFlags /\ w # "scan" /\ w # "run" BY <2>7 DEF AskFlags
    <3> QED BY <2>2, <2>4, <2>5, <2>6, <2>7, <3>1 DEF Traced
  <2>8. CASE w \notin {"-E", "-G"} BY <2>2, <2>3, <2>4, <2>6, <2>8 DEF Traced
  <2> QED BY <2>7, <2>8
<1>6. CASE direct.at \in {"-E", "-G"}
  <2>1. s.want \in {"-E", "-G"} /\ s.mode = "-I" BY <1>1, <1>6
  <2>2. direct'.at = "run" BY <1>6 DEF DirectDoes
  <2>3. w \in Alpha /\ t.want = None /\ t.mode = s.mode
    BY <2>1, RustHolds, NoneIsNoFlag
  <2>4. w \notin Dashed BY <2>3, PlainWords, WordsAssumption
  <2>5. count.at = "value" BY <1>1, <1>3, <1>6
  <2>6. count'.at = "run" BY <2>4, <2>5 DEF CountDoes
  <2> QED BY <2>1, <2>2, <2>3, <2>6 DEF Traced
<1>7. CASE direct.at = "done"
  <2>1. direct' = direct BY <1>7 DEF DirectDoes
  <2>2. count.at = "done" BY <1>2, <1>3, <1>7
  <2>3. count' = count BY <2>2 DEF CountDoes
  <2>4. s.mode = "-I" BY <1>1, <1>7
  <2>5. t.mode = "-I" BY <2>4, RustHolds, NoneIsNoFlag
  <2> QED BY <1>1, <1>7, <2>1, <2>2, <2>3, <2>5 DEF Traced
<1> QED BY <1>2, <1>4, <1>5, <1>6, <1>7

\* What is right after the -I grows with the persons of a traced parser.
LEMMA DirectGrows ==
  ASSUME NEW s \in Question, NEW w \in Words, Traced(s, direct, count),
         DirectType, DirectDoes(w, direct')
  PROVE  \/ direct'.persons = direct.persons /\ direct.at \notin {"-E", "-G"}
         \/ /\ direct.at \in {"-E", "-G"} /\ s.want = direct.at /\ s.mode = "-I"
            /\ direct'.persons = Append(direct.persons, <<s.want, w>>)
            /\ direct'.at = "run" /\ <<s.want, w>> \in Who
<1>1. direct.at \in {"scan", "run", "done", "-E", "-G"} BY DEF DirectType
<1>2. CASE direct.at \in {"-E", "-G"}
  <2>1. s.want = direct.at /\ s.mode = "-I" BY <1>2 DEF Traced
  <2> QED BY <1>2, <2>1 DEF DirectDoes
<1>3. CASE direct.at \notin {"-E", "-G"} BY <1>1, <1>3 DEF DirectDoes
<1> QED BY <1>2, <1>3

\* The persons right after the -I stay the first names of the C program.
LEMMA StaysLeading ==
  ASSUME NEW s \in Question, NEW k \in Command, NEW w \in Words, Same(s, k),
         NEW l, CDoes(k, w, l), l # Refused,
         Traced(s, direct, count), Leading(k.names, direct), DirectType, DirectDoes(w, direct')
  PROVE  Leading(l.names, direct')
<1> DEFINE x == <<s.want, w>>
<1>1. /\ k.names \in Seq(Who) /\ direct.persons \in Seq(Who)
      /\ s.want \in AskFlags \cup {None} /\ k.want = s.want /\ k.mode = s.mode
  BY DEF Command, DirectType, Question, Same
<1>2. /\ Len(direct.persons) <= Len(k.names)
      /\ \A i \in 1..Len(direct.persons) : k.names[i] = direct.persons[i]
      /\ direct.at # "done" => k.names = direct.persons
  BY DEF Leading
<1>3. l.names = IF s.want \in {"-E", "-G"} /\ s.mode = "-I" THEN Append(k.names, x) ELSE k.names
  <2>1. CASE s.want = "-K"
    <3>1. l = Commanded(None, w, k.mode, k.log, k.query, k.names) BY <1>1, <2>1 DEF CDoes
    <3> QED BY <2>1, <3>1 DEF Commanded
  <2>2. CASE s.want \in {"-E", "-G"} /\ s.mode = "-I"
    <3>1. l = Commanded(None, k.token, k.mode, k.log, k.query, Append(k.names, x))
      BY <1>1, <2>2 DEF CDoes
    <3> QED BY <2>2, <3>1 DEF Commanded
  <2>3. CASE s.want \in {"-E", "-G"} /\ s.mode # "-I"
    <3>1. l = Commanded(None, k.token, k.mode, k.log, x, k.names)
      BY <1>1, <2>3 DEF CDoes
    <3> QED BY <2>3, <3>1 DEF Commanded
  <2>4. CASE s.want = None /\ w \in AskFlags
    <3>1. l = Commanded(w, k.token, k.mode, k.log, k.query, k.names) BY <1>1, <2>4 DEF CDoes
    <3> QED BY <2>4, <3>1, NoneIsNoFlag DEF Commanded
  <2>5. CASE s.want = None /\ w \in Modes
    <3>1. l = Commanded(None, k.token, w, k.log, k.query, k.names) BY <1>1, <2>5 DEF CDoes
    <3> QED BY <2>5, <3>1, NoneIsNoFlag DEF Commanded
  <2>6. CASE s.want = None /\ w \notin AskFlags /\ w \notin Modes
    <3>1. l = k \/ l = Commanded(None, k.token, k.mode, w, k.query, k.names)
      BY <1>1, <2>6 DEF CDoes
    <3> QED BY <2>6, <3>1, NoneIsNoFlag DEF Commanded
  <2> QED BY <1>1, <2>1, <2>2, <2>3, <2>4, <2>5, <2>6, WordCases
<1>4. CASE l.names = k.names /\ ~ (s.want \in {"-E", "-G"} /\ s.mode = "-I")
  <2>1. direct'.persons = direct.persons /\ direct.at \notin {"-E", "-G"}
    BY <1>4, DirectGrows
  <2>2. direct'.at # "done" => direct.at # "done" BY <2>1 DEF DirectDoes
  <2> QED BY <1>2, <1>4, <2>1, <2>2 DEF Leading
<1>5. CASE l.names = Append(k.names, x) /\ s.want \in {"-E", "-G"} /\ s.mode = "-I"
  <2>1. x \in Who BY <1>5 DEF Who
  <2> HIDE DEF x
  <2>2. direct.at # "scan" /\ direct.at # "run" BY <1>5, NoneIsNoFlag DEF Traced
  <2>3. CASE direct.at = "done"
    <3>1. direct' = direct BY <2>3 DEF DirectDoes
    <3>2. /\ Len(Append(k.names, x)) = Len(k.names) + 1
          /\ \A i \in 1..Len(k.names) : Append(k.names, x)[i] = k.names[i]
      BY <1>1, <2>1
    <3>3. Len(k.names) \in Nat /\ Len(direct.persons) \in Nat BY <1>1
    <3>4. Len(direct.persons) <= Len(Append(k.names, x)) BY <1>2, <3>2, <3>3
    <3>5. \A i \in 1..Len(direct.persons) : i \in 1..Len(k.names) BY <1>2, <3>3
    <3>6. \A i \in 1..Len(direct.persons) : Append(k.names, x)[i] = direct.persons[i]
      BY <1>2, <3>2, <3>5
    <3> QED BY <1>5, <2>3, <3>1, <3>4, <3>6 DEF Leading
  <2>4. CASE direct.at \in {"-E", "-G"}
    <3>1. direct'.persons = Append(direct.persons, x) BY <2>4, DirectGrows DEF x
    <3>2. k.names = direct.persons BY <1>2, <2>4
    <3>3. l.names = direct'.persons BY <1>5, <3>1, <3>2
    <3>4. Len(l.names) \in Nat BY <1>1, <1>5, <2>1
    <3> QED BY <3>3, <3>4 DEF Leading
  <2>5. direct.at \in {"scan", "run", "done", "-E", "-G"} BY DEF DirectType
  <2> QED BY <2>2, <2>3, <2>4, <2>5
<1> QED BY <1>3, <1>4, <1>5

\* What the Java program goes on with, a token and a path that all take so far,
\* the Rust one goes on with; so does the C one, but for a second person before -I.
LEMMA StaysTaken ==
  ASSUME NEW s \in Question, NEW w \in Words, NEW t, JavaDoes(s, w, t), t # Refused,
         Common(t), NEW u, RustDoes(s, w, u)
  PROVE  /\ u = t
         /\ s.want = "-K" => s.token = None
         /\ s.want # "-K" => t.token = s.token
         /\ Common(s)
         /\ s.want = None /\ w \in Modes => s.mode = None
         /\ s.want = None /\ w \notin AskFlags /\ w \notin Modes =>
              s.log = None /\ w \in PathC /\ w \notin Dashed
<1>1. s.want \in AskFlags \cup {None} BY DEF Question
<1>2. CASE s.want = "-K"
  <2>1. s.token = None /\ t = Asked(None, w, s.mode, s.log, s.persons)
    BY <1>2 DEF JavaDoes
  <2> QED BY <1>2, <2>1, NoneIsNoFlag DEF RustDoes, Common, Asked
<1>3. CASE s.want \in {"-E", "-G"}
  <2>1. w \in Alpha /\ t = Asked(None, s.token, s.mode, s.log, Append(s.persons, <<s.want, w>>))
    BY <1>3 DEF JavaDoes
  <2> QED BY <1>3, <2>1, NoneIsNoFlag DEF RustDoes, Common, Asked
<1>4. CASE s.want = None /\ w \in AskFlags
  <2>1. t = Asked(w, s.token, s.mode, s.log, s.persons) BY <1>4 DEF JavaDoes
  <2> QED BY <1>4, <2>1, NoneIsNoFlag DEF RustDoes, Common, Asked
<1>5. CASE s.want = None /\ w \in Modes
  <2>1. s.mode = None /\ t = Asked(None, s.token, w, s.log, s.persons)
    BY <1>5 DEF JavaDoes
  <2> QED BY <1>5, <2>1, NoneIsNoFlag DEF RustDoes, Common, Asked
<1>6. CASE s.want = None /\ w \notin AskFlags /\ w \notin Modes
  <2>1. s.log = None /\ t = Asked(None, s.token, s.mode, w, s.persons)
    BY <1>6 DEF JavaDoes
  <2>2. w \in PathC BY <2>1, WordClasses DEF Common, Asked
  <2>3. w \notin Dashed BY <2>2, WordsAssumption
  <2>4. u = t BY <1>6, <2>1, <2>3 DEF RustDoes
  <2> QED BY <1>6, <2>1, <2>2, <2>3, <2>4, NoneIsNoFlag DEF Common, Asked
<1> QED BY <1>1, <1>2, <1>3, <1>4, <1>5, <1>6, WordCases

\* Where the C program refuses what the others go on with, there were two persons
\* before the -I.
LEMMA RefusedForMany ==
  ASSUME NEW s \in Question, NEW k \in Command, NEW w \in Words, Same(s, k),
         NEW t, JavaDoes(s, w, t), t # Refused, Common(t), RustDoes(s, w, t),
         NEW l, CDoes(k, w, l), l = Refused, Refused \notin Command
  PROVE  Len(t.persons) >= 2 /\ t.mode # "-I"
<1>1. /\ k.want = s.want /\ k.token = s.token /\ k.mode = s.mode /\ k.log = s.log
      /\ s.persons = Both(k.query, k.names) /\ (k.mode # "-I" => k.names = << >>)
  BY DEF Same
<1>2. /\ s.want \in AskFlags \cup {None} /\ k.query \in {None} \cup Who /\ k.names \in Seq(Who)
      /\ s.persons \in Seq(Who) /\ k.token \in Word /\ k.log \in Word
      /\ s.token \in Word /\ s.log \in Word
  BY DEF Question, Command
<1>3. /\ s.want = "-K" => s.token = None
      /\ s.want = None /\ w \in Modes => s.mode = None
      /\ s.want = None /\ w \notin AskFlags /\ w \notin Modes =>
           s.log = None /\ w \in PathC /\ w \notin Dashed
  BY StaysTaken
<1>4. \A want, token, mode, log, query, names :
        /\ want \in AskFlags \cup {None} /\ token \in Word /\ mode \in Modes \cup {None}
        /\ log \in Word /\ query \in {None} \cup Who /\ names \in Seq(Who)
        => Commanded(want, token, mode, log, query, names) # Refused
  BY DEF Command, Commanded
<1>5. w \in Word /\ s.mode \in Modes \cup {None} BY DEF Word, Question
<1>6. s.want \in {"-E", "-G"} /\ k.mode # "-I" /\ k.query # None
  <2>1. s.want # "-K"
    <3>1. ASSUME s.want = "-K" PROVE l = Commanded(None, w, k.mode, k.log, k.query, k.names)
      BY <1>1, <1>3, <3>1 DEF CDoes
    <3> QED BY <1>1, <1>2, <1>4, <1>5, <3>1
  <2>2. ~ (s.want = None /\ w \in AskFlags)
    <3>1. ASSUME s.want = None, w \in AskFlags
          PROVE  l = Commanded(w, k.token, k.mode, k.log, k.query, k.names)
      BY <1>1, <3>1 DEF CDoes
    <3> QED BY <1>1, <1>2, <1>4, <1>5, <3>1
  <2>3. ~ (s.want = None /\ w \in Modes)
    <3>1. ASSUME s.want = None, w \in Modes
          PROVE  l = Commanded(None, k.token, w, k.log, k.query, k.names)
      BY <1>1, <1>3, <3>1 DEF CDoes
    <3> QED BY <1>1, <1>2, <1>4, <1>5, <3>1
  <2>4. ~ (s.want = None /\ w \notin AskFlags /\ w \notin Modes)
    <3>1. ASSUME s.want = None, w \notin AskFlags, w \notin Modes
          PROVE  l = Commanded(None, k.token, k.mode, w, k.query, k.names)
      BY <1>1, <1>3, <3>1 DEF CDoes
    <3> QED BY <1>1, <1>2, <1>4, <1>5, <3>1
  <2>5. s.want \in {"-E", "-G"} BY <1>2, <2>1, <2>2, <2>3, <2>4, WordCases
  <2>6. <<s.want, w>> \in Who BY <2>5 DEF Who
  <2>7. k.mode # "-I"
    <3>1. ASSUME k.mode = "-I"
          PROVE  l = Commanded(None, k.token, k.mode, k.log, k.query,
                               Append(k.names, <<s.want, w>>))
      BY <1>1, <2>5, <3>1 DEF CDoes
    <3>2. Append(k.names, <<s.want, w>>) \in Seq(Who) BY <1>2, <2>6
    <3> QED BY <1>1, <1>2, <1>4, <1>5, <3>1, <3>2
  <2>8. k.query # None
    <3>1. ASSUME k.query = None
          PROVE  l = Commanded(None, k.token, k.mode, k.log, <<s.want, w>>, k.names)
      BY <1>1, <2>5, <2>7, <3>1 DEF CDoes
    <3> QED BY <1>1, <1>2, <1>4, <1>5, <2>6, <3>1
  <2> QED BY <2>5, <2>7, <2>8
<1>7. Len(s.persons) = 1 + Len(k.names) /\ Len(k.names) \in Nat
  BY <1>1, <1>2, <1>6, BothIs
<1>8. t.persons = Append(s.persons, <<s.want, w>>) /\ t.mode = s.mode
  <2>1. s.want # None BY <1>6, NoneIsNoFlag
  <2> QED BY <1>6, <2>1, RustHolds
<1>9. <<s.want, w>> \in Who BY <1>6 DEF Who
<1>10. Len(t.persons) = 2 + Len(k.names) BY <1>2, <1>7, <1>8, <1>9
<1> QED BY <1>1, <1>6, <1>7, <1>8, <1>10

\* Too many persons stay too many.
LEMMA StaysTooMany ==
  ASSUME NEW s \in Question, NEW w \in Words, NEW t, RustDoes(s, w, t), t # Refused,
         Traced(s, direct, count), TooMany(s, direct), DirectType, DirectDoes(w, direct')
  PROVE  TooMany(t, direct')
<1>1. s.persons \in Seq(Who) /\ direct.persons \in Seq(Who) /\ s.want \in AskFlags \cup {None}
  BY DEF Question, DirectType
<1>2. Len(s.persons) \in Nat /\ Len(direct.persons) \in Nat BY <1>1
<1>3. Len(s.persons) >= 2 /\ (s.mode = "-I" => Len(direct.persons) < Len(s.persons))
  BY DEF TooMany
<1>4. \A p \in Seq(Who), x \in Who : Len(Append(p, x)) = Len(p) + 1 OBVIOUS
<1>5. s.want \in {"-E", "-G"} => <<s.want, w>> \in Who BY DEF Who
<1>6. /\ s.want \in {"-E", "-G"} => Len(t.persons) = Len(s.persons) + 1
      /\ s.want \notin {"-E", "-G"} => Len(t.persons) = Len(s.persons)
  BY <1>1, <1>4, <1>5, RustHolds
<1>7. Len(t.persons) >= 2 BY <1>2, <1>3, <1>6
<1>8. ASSUME t.mode = "-I" PROVE Len(direct'.persons) < Len(t.persons)
  <2>1. CASE s.mode = "-I"
    <3>1. CASE direct'.persons = direct.persons
      BY <1>2, <1>3, <1>6, <2>1, <3>1
    <3>2. CASE direct'.persons # direct.persons
      <4>1. /\ s.want \in {"-E", "-G"} /\ <<s.want, w>> \in Who
            /\ direct'.persons = Append(direct.persons, <<s.want, w>>)
        BY <3>2, DirectGrows
      <4>2. Len(direct'.persons) = Len(direct.persons) + 1 BY <1>1, <1>4, <4>1
      <4> QED BY <1>2, <1>3, <1>6, <2>1, <4>1, <4>2
    <3> QED BY <3>1, <3>2
  <2>2. CASE s.mode # "-I"
    <3>1. direct.at = "scan" /\ direct.persons = << >> BY <2>2 DEF Traced
    <3>2. direct'.persons = << >> BY <3>1 DEF DirectDoes
    <3>3. Len(direct'.persons) = 0 BY <3>2
    <3> QED BY <1>2, <1>3, <1>6, <3>3
  <2> QED BY <2>1, <2>2
<1> QED BY <1>7, <1>8 DEF TooMany

LEMMA ReadKeeps ==
  ASSUME IInv, NEW w \in Words, FeedRead(w)
  PROVE  IInv'
<1>1. program = "read" /\ program' = program /\ program # "append" BY DEF FeedRead
<1>2. /\ rust \in Question \cup {Refused} /\ java \in Question \cup {Refused}
      /\ c \in Command \cup {Refused}
      /\ count \in [at: {"scan", "run", "value", "done"}, n: Nat]
  BY <1>1, MaxNamesAssumption DEF IInv, TypeOK
<1>3. /\ InStep /\ DirectType
      /\ rust # Refused /\ java # Refused => rust = java
      /\ rust # Refused /\ c # Refused => Same(rust, c)
      /\ rust # Refused /\ Clean(rust) /\ (c # Refused \/ java # Refused) =>
           Traced(rust, direct, count)
      /\ rust # Refused /\ c # Refused /\ Clean(rust) => Leading(c.names, direct)
      /\ java # Refused /\ Clean(java) /\ Common(java) =>
           rust # Refused /\ (c # Refused \/ TooMany(java, direct))
  BY <1>1 DEF IInv, ReadInv
<1>4. /\ c' = AskedC(c, w) /\ rust' = AskedRust(rust, w) /\ java' = AskedJava(java, w)
      /\ count' = Counted(count, w) /\ direct' = Directly(direct, w)
      /\ Len(direct'.persons) <= MaxNames
  BY DEF FeedRead
<1>5. /\ DirectType' /\ InStep'
      /\ count' \in [at: {"scan", "run", "value", "done"}, n: 0..MaxNames]
  BY <1>2, <1>3, <1>4, StaysInStep
<1>6. DirectDoes(w, direct') BY <1>3, <1>4, DirectlyIs
<1>7. CountDoes(count, w, count') BY <1>2, <1>4, CountedIs
<1>8. rust' \in Question \cup {Refused} /\ (rust # Refused => RustDoes(rust, w, rust'))
  BY <1>2, <1>4, RustIs, StaysRefused
<1>9. java' \in Question \cup {Refused} /\ (java # Refused => JavaDoes(java, w, java'))
  BY <1>2, <1>4, JavaIs, StaysRefused
<1>10. c' \in Command \cup {Refused} /\ (c # Refused => CDoes(c, w, c'))
  BY <1>2, <1>4, CIs, StaysRefused
<1>11. rust' # Refused => rust # Refused /\ rust \in Question BY <1>2, <1>4, StaysRefused
<1>12. java' # Refused => java # Refused /\ java \in Question BY <1>2, <1>4, StaysRefused
<1>13. c' # Refused => c # Refused /\ c \in Command BY <1>2, <1>4, StaysRefused
<1>14. rust' # Refused /\ java' # Refused => rust' = java'
  <2>1. ASSUME rust' # Refused, java' # Refused PROVE rust' = java'
    <3>1. java = rust /\ rust \in Question BY <1>3, <1>11, <1>12, <2>1
    <3> QED BY <1>4, <2>1, <3>1, AskedAlike
  <2> QED BY <2>1
<1>15. rust' # Refused /\ c' # Refused => Same(rust', c')
  BY <1>3, <1>8, <1>10, <1>11, <1>13, StaysSame
<1>16. rust' # Refused /\ Clean(rust') /\ (c' # Refused \/ java' # Refused) =>
         Clean(rust) /\ Traced(rust, direct, count)
  <2>1. SUFFICES ASSUME rust' # Refused, Clean(rust'), c' # Refused \/ java' # Refused
                 PROVE  Clean(rust)
    BY <1>3, <1>11, <1>12, <1>13
  <2>2. rust \in Question /\ RustDoes(rust, w, rust') BY <1>8, <1>11, <2>1
  <2>3. CASE rust.want # "-K"
    <3>1. rust'.token = rust.token BY <2>1, <2>2, <2>3, RustHolds
    <3> QED BY <2>1, <3>1 DEF Clean
  <2>4. CASE rust.want = "-K"
    <3>1. CASE c' # Refused
      <4>1. c.want = "-K" /\ c.token = rust.token
        BY <1>3, <1>11, <1>13, <2>1, <2>4, <3>1 DEF Same
      <4>2. c.token = None BY <1>10, <1>13, <3>1, <4>1 DEF CDoes
      <4> QED BY <4>1, <4>2 DEF Clean
    <3>2. CASE java' # Refused
      <4>1. java = rust BY <1>3, <1>11, <1>12, <2>1, <3>2
      <4>2. java.token = None BY <1>9, <1>12, <2>4, <3>2, <4>1 DEF JavaDoes
      <4> QED BY <4>1, <4>2 DEF Clean
    <3> QED BY <2>1, <3>1, <3>2
  <2> QED BY <2>3, <2>4
<1>17. rust' # Refused /\ Clean(rust') /\ (c' # Refused \/ java' # Refused) =>
         Traced(rust', direct', count')
  BY <1>2, <1>3, <1>6, <1>7, <1>8, <1>11, <1>16, StaysTraced
<1>18. rust' # Refused /\ c' # Refused /\ Clean(rust') => Leading(c'.names, direct')
  <2>1. ASSUME rust' # Refused, c' # Refused, Clean(rust') PROVE Leading(c'.names, direct')
    <3>1. /\ rust \in Question /\ c \in Command /\ Same(rust, c) /\ CDoes(c, w, c')
          /\ Traced(rust, direct, count) /\ Leading(c.names, direct)
      BY <1>3, <1>10, <1>11, <1>13, <1>16, <2>1
    <3> QED BY <1>3, <1>6, <2>1, <3>1, StaysLeading
  <2> QED BY <2>1
<1>19. java' # Refused /\ Clean(java') /\ Common(java') =>
         rust' # Refused /\ (c' # Refused \/ TooMany(java', direct'))
  <2>1. SUFFICES ASSUME java' # Refused, Clean(java'), Common(java')
                 PROVE  rust' # Refused /\ (c' # Refused \/ TooMany(java', direct'))
    OBVIOUS
  <2>2. java # Refused /\ java \in Question /\ JavaDoes(java, w, java') BY <1>9, <1>12, <2>1
  <2>3. RustDoes(java, w, AskedRust(java, w)) BY <2>2, RustIs
  <2>4. /\ AskedRust(java, w) = java'
        /\ java.want = "-K" => java.token = None
        /\ java.want # "-K" => java'.token = java.token
        /\ Common(java)
    BY <2>1, <2>2, <2>3, StaysTaken
  <2>5. Clean(java) BY <2>1, <2>4 DEF Clean
  <2>6. rust = java /\ (c # Refused \/ TooMany(java, direct)) BY <1>3, <2>2, <2>4, <2>5
  <2>7. rust' = java' /\ RustDoes(java, w, java') /\ Traced(java, direct, count)
    BY <1>3, <1>4, <2>2, <2>3, <2>4, <2>5, <2>6
  <2>8. CASE c # Refused /\ c' = Refused
    <3>1. c \in Command /\ Same(java, c) /\ CDoes(c, w, c') BY <1>2, <1>3, <1>10, <2>2, <2>6, <2>8
    <3>2. Len(java'.persons) >= 2 /\ java'.mode # "-I"
      BY <2>1, <2>2, <2>7, <2>8, <3>1, NullsAssumption, RefusedForMany
    <3> QED BY <2>1, <2>7, <3>2 DEF TooMany
  <2>9. CASE TooMany(java, direct)
    <3>1. TooMany(java', direct') BY <1>3, <1>6, <2>1, <2>2, <2>7, <2>9, StaysTooMany
    <3> QED BY <2>1, <2>7, <3>1
  <2> QED BY <2>1, <2>6, <2>7, <2>8, <2>9
<1>20. ReadInv' BY <1>5, <1>14, <1>15, <1>17, <1>18, <1>19 DEF ReadInv
<1>21. TypeOK' BY <1>1, <1>5, <1>8, <1>9, <1>10 DEF IInv, TypeOK
<1>22. AppendInv' BY <1>1 DEF AppendInv
<1> QED BY <1>5, <1>20, <1>21, <1>22 DEF IInv

------------------------------------------------------------------------------
(* The invariant *)

LEMMA InitKeeps ==
  ASSUME Init
  PROVE  IInv
<1>1. count = NotSeen /\ direct = [at |-> "scan", persons |-> << >>] BY DEF Init
<1>2. /\ count \in [at: {"scan", "run", "value", "done"}, n: 0..MaxNames]
      /\ DirectType
  <2>1. 0 \in 0..MaxNames BY MaxNamesAssumption
  <2>2. << >> \in Seq(Who) OBVIOUS
  <2> QED BY <1>1, <2>1, <2>2 DEF NotSeen, DirectType
<1>3. CASE program = "append" /\ c = NoEntry /\ rust = NoEntry /\ java = NoEntry
  <2>1. NoEntry \in Line BY DEF NoEntry, Line
  <2>2. Checked(NoEntry)
    <3>1. {"-T", "-K", "log"} \subseteq Slots BY DEF Slots
    <3> QED BY <3>1 DEF Checked, NoEntry
  <2>3. TypeOK BY <1>2, <1>3, <2>1 DEF TypeOK
  <2>4. AppendInv BY <1>3, <2>2 DEF AppendInv
  <2>5. ReadInv BY <1>3 DEF ReadInv
  <2> QED BY <1>2, <2>3, <2>4, <2>5 DEF IInv
<1>4. CASE program = "read" /\ c = NoCommand /\ rust = NoQuestion /\ java = NoQuestion
  <2>1. << >> \in Seq(Who) OBVIOUS
  <2>2. NoCommand \in Command BY <2>1 DEF NoCommand, Command, Word
  <2>3. NoQuestion \in Question BY <2>1 DEF NoQuestion, Question, Word
  <2>4. TypeOK BY <1>2, <1>4, <2>2, <2>3 DEF TypeOK
  <2>5. AppendInv BY <1>4 DEF AppendInv
  <2>6. Len(<< >>) = 0 OBVIOUS
  <2>7. InStep BY <1>1, <2>6, MaxNamesAssumption DEF InStep, NotSeen
  <2>8. Same(NoQuestion, NoCommand) BY BothIs DEF Same, NoQuestion, NoCommand
  <2>9. Traced(NoQuestion, direct, count)
    BY <1>1, NoneIsNoFlag DEF Traced, NoQuestion, NotSeen
  <2>10. Leading(NoCommand.names, direct)
    BY <1>1, <2>6 DEF Leading, NoCommand
  <2>11. NoCommand # Refused /\ NoQuestion # Refused BY <2>2, <2>3, NotRefused
  <2> QED BY <1>2, <1>4, <2>4, <2>5, <2>7, <2>8, <2>9, <2>10, <2>11 DEF IInv, ReadInv
<1> QED BY <1>3, <1>4 DEF Init

LEMMA StepKeeps ==
  ASSUME IInv, [Next]_vars
  PROVE  IInv'
<1>1. ASSUME NEW w \in Words, FeedAppend(w) PROVE IInv' BY <1>1, AppendKeeps
<1>2. ASSUME NEW w \in Words, FeedRead(w) PROVE IInv' BY <1>2, ReadKeeps
<1>3. CASE UNCHANGED vars
  <2>1. /\ program' = program /\ c' = c /\ rust' = rust /\ java' = java
        /\ count' = count /\ direct' = direct
    BY <1>3 DEF vars
  <2>2. TypeOK' BY <2>1 DEF IInv, TypeOK
  <2>3. DirectType' BY <2>1 DEF IInv, DirectType
  <2>4. AppendInv' BY <2>1 DEF IInv, AppendInv
  <2>5. InStep = InStep' BY <2>1 DEF InStep
  <2>6. ReadInv' BY <2>1, <2>5 DEF IInv, ReadInv
  <2> QED BY <2>2, <2>3, <2>4, <2>6 DEF IInv
<1> QED BY <1>1, <1>2, <1>3 DEF Next

\* The inductive invariant holds throughout.
LEMMA Holds == Spec => []IInv
BY InitKeeps, StepKeeps, PTL DEF Spec

------------------------------------------------------------------------------
(* The theorems *)

\* The parsers and the passes over the line hold what the type invariant says.
THEOREM ArgumentsTypeCorrect == Spec => []TypeOK
<1>1. IInv => TypeOK BY DEF IInv
<1> QED BY <1>1, Holds, PTL

LEMMA AppendAgrees ==
  ASSUME AppendInv
  PROVE  AppendLinesAgree
<1>1. SUFFICES ASSUME program = "append"
               PROVE  /\ AppendsC(c) => /\ AppendsRust(rust) /\ AppendsJava(java)
                                        /\ rust.given = c.given
                      /\ AppendsRust(rust) /\ AppendsJava(java) => rust.given = java.given
  BY DEF AppendLinesAgree
<1>2. /\ c # Refused => rust = c /\ java = c /\ Checked(c)
      /\ rust # Refused /\ java # Refused => rust = java
  BY <1>1 DEF AppendInv
<1>3. ASSUME AppendsC(c)
      PROVE  AppendsRust(rust) /\ AppendsJava(java) /\ rust.given = c.given
  <2>1. Complete(c) /\ c # Refused BY <1>3 DEF AppendsC, Complete
  <2>2. rust = c /\ java = c /\ Checked(c) BY <1>2, <2>1
  <2>3. {"-T", "-K", "log"} \subseteq Slots \ {"-R"} BY DEF Slots
  <2>4. c.given["-T"] # None /\ c.given["-K"] # None /\ c.given["log"] # None
    BY <2>1, <2>3 DEF Complete
  <2>5. /\ Number(c.given["-T"][2], 1, MaxInt) /\ c.given["-K"][2] \in Alnum
        /\ c.given["log"][2] \in PathC
    BY <2>2, <2>4 DEF Checked
  <2>6. Value[c.given["-T"][2]] > 0 BY <2>5, WordsAssumption DEF Number
  <2>7. c.given["log"][2] \in PathJava BY <2>5, WordsAssumption
  <2> QED BY <2>1, <2>2, <2>5, <2>6, <2>7 DEF AppendsRust, AppendsJava
<1>4. ASSUME AppendsRust(rust), AppendsJava(java) PROVE rust.given = java.given
  BY <1>2, <1>4 DEF AppendsRust, AppendsJava, Complete
<1> QED BY <1>3, <1>4

\* No line means two things to the three logappend: what the C program enters, the
\* others enter, and what both others take is one and the same entry.
THEOREM AppendLinesMeanOneThing == Spec => []AppendLinesAgree
<1>1. IInv => AppendLinesAgree BY AppendAgrees DEF IInv
<1> QED BY <1>1, Holds, PTL

\* The names the first pass of the C program made room for are those of the history.
LEMMA FillsIn ==
  ASSUME NEW names \in Seq(Who), NEW d \in Seq(Who), NEW n, n = Len(d),
         Len(d) <= Len(names), \A i \in 1..Len(d) : names[i] = d[i]
  PROVE  SubSeq(names, 1, IF Len(names) < n THEN Len(names) ELSE n) = d
<1>1. n \in Nat /\ Len(names) \in Nat /\ n <= Len(names) OBVIOUS
<1>2. (IF Len(names) < n THEN Len(names) ELSE n) = n BY <1>1
<1>3. SubSeq(names, 1, n) = [i \in 1..n |-> names[i]] BY <1>1
<1>4. SubSeq(names, 1, n) = [i \in 1..n |-> d[i]] BY <1>3
<1>5. d = [i \in 1..n |-> d[i]] OBVIOUS
<1> QED BY <1>2, <1>4, <1>5

\* Those after the -I are the last of all.
LEMMA NamesLast ==
  ASSUME NEW q \in {None} \cup Who, NEW n \in Seq(Who)
  PROVE  \E i \in 0..1 : /\ Len(Both(q, n)) = i + Len(n)
                         /\ \A j \in 1..Len(n) : Both(q, n)[i + j] = n[j]
<1>1. Len(n) \in Nat OBVIOUS
<1>2. CASE q = None
  <2>1. PICK b : b = Both(q, n) OBVIOUS
  <2>2. b = << >> \o n BY <1>2, <2>1 DEF Both
  <2>3. Len(b) = 0 + Len(n) /\ \A j \in 1..Len(n) : b[0 + j] = n[j] BY <2>2
  <2>4. 0 \in 0..1 OBVIOUS
  <2> QED BY <2>1, <2>3, <2>4
<1>3. CASE q # None
  <2>1. PICK b : b = Both(q, n) OBVIOUS
  <2>2. b = <<q>> \o n BY <1>3, <2>1 DEF Both
  <2>3. Len(b) = 1 + Len(n) /\ \A j \in 1..Len(n) : b[1 + j] = n[j] BY <1>1, <2>2
  <2>4. 1 \in 0..1 OBVIOUS
  <2> QED BY <2>1, <2>3, <2>4
<1> QED BY <1>2, <1>3

\* Those right after it are a run of all.
LEMMA RunOfAll ==
  ASSUME NEW q \in {None} \cup Who, NEW n \in Seq(Who), NEW d \in Seq(Who),
         Len(d) <= Len(n), \A j \in 1..Len(d) : n[j] = d[j]
  PROVE  Within(d, Both(q, n))
<1>1. PICK i \in 0..1 : /\ Len(Both(q, n)) = i + Len(n)
                       /\ \A j \in 1..Len(n) : Both(q, n)[i + j] = n[j]
  BY NamesLast
<1>2. Len(n) \in Nat /\ Len(d) \in Nat OBVIOUS
<1>3. i \in 0..Len(Both(q, n)) /\ i + Len(d) <= Len(Both(q, n)) BY <1>1, <1>2
<1>4. \A j \in 1..Len(d) : j \in 1..Len(n) BY <1>2
<1>5. \A j \in 1..Len(d) : d[j] = Both(q, n)[i + j] BY <1>1, <1>4
<1> QED BY <1>3, <1>5 DEF Within

LEMMA ReadAgrees ==
  ASSUME IInv
  PROVE  ReadLinesAgree
<1>1. SUFFICES
        ASSUME program = "read"
        PROVE
        /\ Asks(rust) /\ AsksC(c) =>
             /\ <<c.token, c.mode, c.log>> = <<rust.token, rust.mode, rust.log>>
             /\ c.mode # "-I" => PersonsC(c, count) = rust.persons
             /\ c.mode = "-I" => /\ PersonsC(c, count) = direct.persons
                                 /\ Within(direct.persons, rust.persons)
        /\ Asks(rust) /\ AsksJava(java) => rust = java
        /\ /\ AsksJava(java) /\ java.log \in PathC
           /\ java.mode = "-I" => direct.persons = java.persons
           => Asks(rust) /\ AsksC(c)
  BY DEF ReadLinesAgree
<1>2. /\ rust \in Question \cup {Refused} /\ java \in Question \cup {Refused}
      /\ c \in Command \cup {Refused} /\ direct.persons \in Seq(Who)
  BY <1>1 DEF IInv, TypeOK, DirectType
<1>3. /\ InStep
      /\ rust # Refused /\ java # Refused => rust = java
      /\ rust # Refused /\ c # Refused => Same(rust, c)
      /\ rust # Refused /\ Clean(rust) /\ (c # Refused \/ java # Refused) =>
           Traced(rust, direct, count)
      /\ rust # Refused /\ c # Refused /\ Clean(rust) => Leading(c.names, direct)
      /\ java # Refused /\ Clean(java) /\ Common(java) =>
           rust # Refused /\ (c # Refused \/ TooMany(java, direct))
  BY <1>1 DEF IInv, ReadInv
<1>4. ASSUME Asks(rust), AsksC(c)
      PROVE  /\ <<c.token, c.mode, c.log>> = <<rust.token, rust.mode, rust.log>>
             /\ c.mode # "-I" => PersonsC(c, count) = rust.persons
             /\ c.mode = "-I" => /\ PersonsC(c, count) = direct.persons
                                 /\ Within(direct.persons, rust.persons)
  <2>1. /\ rust # Refused /\ c # Refused /\ rust \in Question /\ c \in Command
        /\ rust.token \in Alnum /\ c.mode # None
        /\ c.mode = "-R" => c.query # None
    BY <1>2, <1>4 DEF Asks, AsksC
  <2>2. /\ c.token = rust.token /\ c.mode = rust.mode /\ c.log = rust.log
        /\ rust.persons = Both(c.query, c.names)
        /\ c.mode # "-I" => c.names = << >>
    BY <1>3, <2>1 DEF Same
  <2>3. Clean(rust) BY <2>1 DEF Clean
  <2>4. Traced(rust, direct, count) /\ Leading(c.names, direct) BY <1>3, <2>1, <2>3
  <2>5. c.mode \in Modes /\ c.query \in {None} \cup Who /\ c.names \in Seq(Who)
    BY <2>1 DEF Command
  <2>6. CASE c.mode = "-S"
    <3>1. rust.persons = << >> BY <1>4, <2>2, <2>6 DEF Asks
    <3> QED BY <2>2, <2>6, <3>1 DEF PersonsC
  <2>7. CASE c.mode = "-R"
    <3>1. c.query \in Who /\ c.names = << >> BY <2>1, <2>2, <2>5, <2>7
    <3>2. << >> \in Seq(Who) OBVIOUS
    <3>3. rust.persons = <<c.query>> BY <2>2, <3>1, <3>2, BothIs
    <3> QED BY <2>2, <2>7, <3>3 DEF PersonsC
  <2>8. CASE c.mode = "-I"
    <3>1. count.n = Len(direct.persons) BY <1>3, <2>4 DEF InStep, Traced
    <3>2. /\ Len(direct.persons) <= Len(c.names)
          /\ \A i \in 1..Len(direct.persons) : c.names[i] = direct.persons[i]
      BY <2>4 DEF Leading
    <3>3. SubSeq(c.names, 1, IF Len(c.names) < count.n THEN Len(c.names) ELSE count.n)
            = direct.persons
      BY <1>2, <2>5, <3>1, <3>2, FillsIn
    <3>4. Within(direct.persons, rust.persons) BY <1>2, <2>2, <2>5, <3>2, RunOfAll
    <3> QED BY <2>2, <2>8, <3>3, <3>4 DEF PersonsC
  <2> QED BY <2>2, <2>5, <2>6, <2>7, <2>8 DEF Modes
<1>5. ASSUME Asks(rust), AsksJava(java) PROVE rust = java
  BY <1>3, <1>5 DEF Asks, AsksJava
<1>6. ASSUME AsksJava(java), java.log \in PathC,
             java.mode = "-I" => direct.persons = java.persons
      PROVE  Asks(rust) /\ AsksC(c)
  <2>1. java # Refused /\ Clean(java) /\ Common(java) /\ Asks(java) /\ java \in Question
    BY <1>2, <1>6 DEF AsksJava, Asks, Clean, Common
  <2>2. rust = java /\ (c # Refused \/ TooMany(java, direct)) BY <1>3, <2>1
  <2>3. /\ java.mode \in Modes /\ java.token \in Alnum /\ java.log # None
        /\ java.mode = "-S" => java.persons = << >>
        /\ java.mode = "-R" => Len(java.persons) = 1
        /\ java.persons \in Seq(Who)
    BY <2>1 DEF Asks, Modes, Question
  <2>4. ~ TooMany(java, direct)
    <3>1. SUFFICES ASSUME Len(java.persons) >= 2,
                          java.mode = "-I" => Len(direct.persons) < Len(java.persons)
                   PROVE  FALSE
      BY DEF TooMany
    <3>2. java.mode # "-S" BY <2>3, <3>1
    <3>3. java.mode # "-R"
      <4>1. ~ (1 >= 2) OBVIOUS
      <4> QED BY <2>3, <3>1, <4>1
    <3>4. java.mode = "-I" BY <2>3, <3>2, <3>3 DEF Modes
    <3>5. Len(java.persons) \in Nat BY <2>3
    <3> QED BY <1>6, <3>1, <3>4, <3>5
  <2>5. c # Refused /\ Same(java, c) /\ c \in Command BY <1>2, <1>3, <2>1, <2>2, <2>4
  <2>6. /\ c.token = java.token /\ c.mode = java.mode /\ c.log = java.log
        /\ java.persons = Both(c.query, c.names) /\ (c.mode # "-I" => c.names = << >>)
    BY <2>5 DEF Same
  <2>7. c.token # None /\ c.mode # None /\ c.log # None
    BY <2>3, <2>6, WordClasses, NoneIsNoFlag
  <2>8. c.mode = "-R" => c.query # None
    <3>1. ASSUME c.mode = "-R", c.query = None PROVE FALSE
      <4>1. c.names = << >> BY <2>6, <3>1
      <4>2. java.persons = << >> BY <2>6, <3>1, <4>1, BothIs
      <4>3. Len(<< >>) = 0 OBVIOUS
      <4>4. Len(java.persons) = 1 BY <2>3, <2>6, <3>1
      <4>5. Len(java.persons) = 0 BY <4>2, <4>3
      <4> QED BY <4>4, <4>5
    <3> QED BY <3>1
  <2> QED BY <2>1, <2>2, <2>5, <2>7, <2>8 DEF AsksC
<1> QED BY <1>4, <1>5, <1>6

(* Where Rust and C both take a line of logread they are told the same, except  *)
(* that -I of C is about the persons right after the -I, each of them, and      *)
(* forgets the others. Java takes no line that means anything else to Rust, and *)
(* what it takes with those persons and a common path, all three take.          *)
THEOREM ReadLinesCompared == Spec => []ReadLinesAgree
<1>1. IInv => ReadLinesAgree BY ReadAgrees
<1> QED BY <1>1, Holds, PTL
===============================================================================
