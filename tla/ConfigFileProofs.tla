-------------------------- MODULE ConfigFileProofs --------------------------
(***************************************************************************)
(* Proofs about ConfigFile, for any components, values and files: the      *)
(* types, and that the file is a store of keys unless calls of ini_puts()  *)
(* overlap while one of them copies the file, or a failure costs others    *)
(* their keys.  What makes that inductive is the calm of the file: a call  *)
(* that copies it is alone, each of its stages has the files its           *)
(* predecessors left, and there is always one file that counts.            *)
(***************************************************************************)
EXTENDS ConfigFile, TLAPS

\* While no two calls have overlapped with a copy, one that copies is alone.
Exclusive ==
  \A c, d \in Components : c # d /\ put[c].pc \in Copying => put[d].pc = "idle"

\* What the stages of a call have behind them.
Stage(c) ==
  /\ put[c].pc = "create" => put[c].value # NoKey
  /\ put[c].pc = "fill" => main # NoFile /\ put[c].to = main
  /\ put[c].pc \in {"open", "reopen", "copy", "remove"} => main # NoFile
  /\ put[c].pc \in {"reopen", "copy"} =>
       temp # NoFile /\ put[c].to = temp /\ text[temp] = Empty
  /\ put[c].pc = "copy" => put[c].from = main
  /\ put[c].pc = "remove" =>
       temp # NoFile /\ text[temp] = [text[main] EXCEPT ![c] = put[c].value]
  /\ put[c].pc = "rename" /\ main # NoFile =>
       temp # NoFile /\ text[temp] = [text[main] EXCEPT ![c] = put[c].value]

\* There is always one file that counts.
Whole == IF main = NoFile THEN temp # NoFile ELSE temp # main

Calm == Exclusive /\ Whole /\ \A c \in Components : Stage(c)

CalmInv == ~Lost => Calm

PutType ==
  [pc : {"idle", "search", "rewrite"} \cup Copying, value : Stores,
   from : Inodes \cup {NoFile}, to : Inodes \cup {NoFile}]

-----------------------------------------------------------------------------
(* Types                                                                   *)

\* A file that is opened for writing is one of the files there are, and not one
\* in use unless it is the one behind the name.
LEMMA OpenedIsFile ==
  ASSUME IniTypeOK, NEW name \in Inodes \cup {NoFile}, Room(name)
  PROVE  /\ Opened(name) \in Inodes
         /\ name = NoFile => Opened(name) \notin InUse
         /\ name # NoFile => Opened(name) = name
  BY DEF Opened, Room

\* Changing one call keeps the array of calls well typed.
LEMMA GotoTyped ==
  ASSUME IniTypeOK, NEW c \in Components, NEW new \in PutType, Goto(c, new),
         new.to # NoFile <=> new.pc \in {"fill", "reopen", "copy", "remove"},
         new.from # NoFile <=> new.pc = "copy"
  PROVE  /\ put' \in [Components -> PutType]
         /\ raced' \in BOOLEAN
         /\ \A d \in Components :
              /\ put'[d].to # NoFile <=> put'[d].pc \in {"fill", "reopen", "copy", "remove"}
              /\ put'[d].from # NoFile <=> put'[d].pc = "copy"
<1>1. put \in [Components -> PutType] /\ raced \in BOOLEAN
  BY DEF IniTypeOK, PutType
<1>2. put' = [put EXCEPT ![c] = new]  BY DEF Goto
<1>3. raced' \in BOOLEAN  BY <1>1 DEF Goto
<1>4. ASSUME NEW d \in Components
      PROVE  /\ put'[d].to # NoFile <=> put'[d].pc \in {"fill", "reopen", "copy", "remove"}
             /\ put'[d].from # NoFile <=> put'[d].pc = "copy"
  <2>1. CASE d = c  BY <2>1, <1>1, <1>2
  <2>2. CASE d # c  BY <2>2, <1>1, <1>2 DEF IniTypeOK
  <2> QED BY <2>1, <2>2
<1> QED BY <1>1, <1>2, <1>3, <1>4

\* The answer of a call puts it to rest.
LEMMA ReturnTyped ==
  ASSUME IniTypeOK, NEW c \in Components,
         Return(c, 0) \/ Return(c, 1) \/ ReturnUnsaid(c)
  PROVE  /\ put' \in [Components -> PutType]
         /\ raced' \in BOOLEAN
         /\ \A d \in Components :
              /\ put'[d].to # NoFile <=> put'[d].pc \in {"fill", "reopen", "copy", "remove"}
              /\ put'[d].from # NoFile <=> put'[d].pc = "copy"
         /\ done' \in [Components -> Stores] /\ unsaid' \subseteq Components
<1>1. NoPut \in PutType  BY DEF NoPut, PutType, Stores
<1>2. Goto(c, NoPut)  BY DEF Return, ReturnUnsaid
<1>3. NoPut.to = NoFile /\ NoPut.from = NoFile /\ NoPut.pc = "idle"  BY DEF NoPut
<1>4. put[c].value \in Stores  BY DEF IniTypeOK
<1>5. done \in [Components -> Stores] /\ unsaid \subseteq Components  BY DEF IniTypeOK
<1>7. done' \in [Components -> Stores] /\ unsaid' \subseteq Components
  BY <1>4, <1>5 DEF Return, ReturnUnsaid
<1> QED BY <1>1, <1>2, <1>3, <1>7, GotoTyped

LEMMA TypeInit == ASSUME IniAssumption, IniInit PROVE IniTypeOK
<1>1. main \in Inodes  BY DEF IniInit, IniAssumption
<1>2. Empty \in [Components -> Stores]  BY DEF Empty, Stores
<1>3. NoPut.pc = "idle" /\ NoPut.from = NoFile /\ NoPut.to = NoFile /\ NoPut.value = NoKey
  BY DEF NoPut
<1>4. NoPut \in PutType  BY DEF NoPut, PutType, Stores
<1>5. put \in [Components -> PutType] /\ \A c \in Components : put[c] = NoPut
  BY <1>4 DEF IniInit
<1>6. NoKey \in Stores  BY DEF Stores
<1>7. text \in [Inodes -> [Components -> Stores]]  BY <1>2 DEF IniInit
<1>9. done \in [Components -> Stores]  BY <1>2 DEF IniInit
<1>10. /\ temp = NoFile /\ raced = FALSE /\ spoilt = FALSE /\ unsaid = {}
       /\ crashes = 0 /\ 0 \in 0..MaxCrashes
  BY DEF IniInit, IniAssumption
<1>11. \A c \in Components :
         /\ put[c].to # NoFile <=> put[c].pc \in {"fill", "reopen", "copy", "remove"}
         /\ put[c].from # NoFile <=> put[c].pc = "copy"
  BY <1>3, <1>5
<1> QED BY <1>1, <1>5, <1>7, <1>9, <1>10, <1>11 DEF IniTypeOK, PutType

\* The part of the type invariant the calls are in.
PutsOK ==
  /\ put \in [Components -> PutType]
  /\ raced \in BOOLEAN
  /\ \A d \in Components :
       /\ put[d].to # NoFile <=> put[d].pc \in {"fill", "reopen", "copy", "remove"}
       /\ put[d].from # NoFile <=> put[d].pc = "copy"

RestOK ==
  /\ text \in [Inodes -> [Components -> Stores]]
  /\ main \in Inodes \cup {NoFile} /\ temp \in Inodes \cup {NoFile}
  /\ done \in [Components -> Stores] /\ unsaid \subseteq Components
  /\ spoilt \in BOOLEAN
  /\ crashes \in 0..MaxCrashes

LEMMA TypeParts == IniTypeOK <=> PutsOK /\ RestOK
  BY DEF IniTypeOK, PutsOK, RestOK, PutType

\* A value written to a file keeps the texts well typed.
LEMMA WrittenTyped ==
  ASSUME RestOK, NEW i \in Inodes, NEW c \in Components, NEW v \in Stores
  PROVE  [text EXCEPT ![i][c] = v] \in [Inodes -> [Components -> Stores]]
<1>1. [text[i] EXCEPT ![c] = v] \in [Components -> Stores]  BY DEF RestOK
<1> QED BY <1>1 DEF RestOK

LEMMA CutTyped ==
  ASSUME RestOK, NEW i \in Inodes, NEW c \in Components, CutLine(i, c)
  PROVE  text' \in [Inodes -> [Components -> Stores]]
BY WrittenTyped DEF CutLine

LEMMA EmptiedTyped ==
  ASSUME RestOK, NEW i \in Inodes
  PROVE  [text EXCEPT ![i] = Empty] \in [Inodes -> [Components -> Stores]]
<1>1. Empty \in [Components -> Stores]  BY DEF Empty, Stores
<1> QED BY <1>1 DEF RestOK

LEMMA TypeStep ==
  ASSUME IniAssumption, IniTypeOK, [IniNext]_iniVars
  PROVE  IniTypeOK'
<1>0. PutsOK /\ RestOK  BY TypeParts
<1> SUFFICES PutsOK' /\ RestOK'  BY DEF IniTypeOK, PutsOK, RestOK, PutType
<1>a. ASSUME NEW c \in Components
      PROVE  put[c] \in PutType /\ put[c].value \in Stores
  BY <1>0 DEF PutsOK, PutType
<1>1. ASSUME NEW c \in Components, NEW v \in Stores, Put(c, v) PROVE PutsOK' /\ RestOK'
  <2> DEFINE new == [NoPut EXCEPT !.pc = "search", !.value = v]
  <2>1. new \in PutType /\ new.pc = "search" /\ new.to = NoFile /\ new.from = NoFile
    BY DEF NoPut, PutType
  <2>2. Goto(c, new)  BY <1>1 DEF Put
  <2>3. PutsOK'  BY <2>1, <2>2, GotoTyped DEF PutsOK
  <2> QED BY <1>0, <1>1, <2>3 DEF Put, RestOK
<1>2. ASSUME NEW c \in Components, SearchSame(c) PROVE PutsOK' /\ RestOK'
  BY <1>0, <1>2, ReturnTyped DEF SearchSame, PutsOK, RestOK
<1>3. ASSUME NEW c \in Components, NEW pc \in {"create", "rewrite", "open"},
             put[c].pc = "search", Goto(c, [put[c] EXCEPT !.pc = pc])
      PROVE  PutsOK'
  <2> DEFINE new == [put[c] EXCEPT !.pc = pc]
  <2>1. put[c].to = NoFile /\ put[c].from = NoFile  BY <1>3, <1>0 DEF PutsOK
  <2>2. new \in PutType /\ new.pc = pc /\ new.to = NoFile /\ new.from = NoFile
    BY <2>1, <1>a DEF PutType, Copying
  <2> QED BY <1>3, <2>2, GotoTyped DEF PutsOK
<1>18. ASSUME NEW c \in Components, Search(c) PROVE PutsOK' /\ RestOK'
  <2> DEFINE inPlace == /\ put[c].value # NoKey /\ text[main][c] # NoKey
                        /\ Width[put[c].value] = Width[text[main][c]]
             pc == IF inPlace THEN "rewrite" ELSE "open"
  <2>1. put[c].pc = "search" /\ Goto(c, [put[c] EXCEPT !.pc = pc])
    BY <1>18, Zenon DEF Search
  <2>2. pc \in {"create", "rewrite", "open"}  OBVIOUS
  <2> HIDE DEF pc
  <2>3. PutsOK'  BY <1>3, <2>1, <2>2
  <2> QED BY <1>0, <1>18, <2>3 DEF Search, RestOK
<1>19. ASSUME NEW c \in Components, SearchFails(c) PROVE PutsOK' /\ RestOK'
  <2>1. CASE put[c].value = NoKey
    <3>1. ReturnUnsaid(c)  BY <1>19, <2>1 DEF SearchFails
    <3> QED BY <1>0, <1>19, <3>1, ReturnTyped DEF SearchFails, PutsOK, RestOK
  <2>2. CASE put[c].value # NoKey
    <3>1. PutsOK'  BY <1>3, <1>19, <2>2 DEF SearchFails
    <3> QED BY <1>0, <1>19, <2>2, <3>1 DEF SearchFails, RestOK
  <2> QED BY <2>1, <2>2
<1>4. ASSUME NEW c \in Components, Rewrite(c) PROVE PutsOK' /\ RestOK'
  <2>1. Return(c, 0) \/ Return(c, 1) \/ ReturnUnsaid(c)  BY <1>4 DEF Rewrite
  <2>2. PutsOK' /\ done' \in [Components -> Stores] /\ unsaid' \subseteq Components
    BY <2>1, ReturnTyped DEF PutsOK
  <2>3. main # NoFile => main \in Inodes  BY <1>0 DEF RestOK
  <2>4. \/ UNCHANGED text
        \/ main # NoFile /\ text' = [text EXCEPT ![main][c] = put[c].value]
        \/ main # NoFile /\ CutLine(main, c)
    BY <1>4 DEF Rewrite
  <2>5. text' \in [Inodes -> [Components -> Stores]]
    <3>1. CASE UNCHANGED text  BY <3>1, <1>0 DEF RestOK
    <3>2. CASE main # NoFile /\ text' = [text EXCEPT ![main][c] = put[c].value]
      BY <3>2, <2>3, <1>0, <1>a, WrittenTyped
    <3>3. CASE main # NoFile /\ CutLine(main, c)  BY <3>3, <2>3, <1>0, CutTyped
    <3> QED BY <2>4, <3>1, <3>2, <3>3
  <2> QED BY <1>0, <1>4, <2>2, <2>5 DEF Rewrite, RestOK
<1>5. ASSUME NEW c \in Components, Create(c) PROVE PutsOK' /\ RestOK'
  <2>1. CASE Return(c, 0) /\ UNCHANGED <<text, main, spoilt>>
    BY <2>1, <1>0, <1>5, ReturnTyped DEF Create, PutsOK, RestOK
  <2>2. CASE ~(Return(c, 0) /\ UNCHANGED <<text, main, spoilt>>)
    <3> DEFINE i == Opened(main)
               new == [put[c] EXCEPT !.pc = "fill", !.to = i]
    <3>1. Room(main) /\ main' = i /\ text' = [text EXCEPT ![i] = Empty] /\ Goto(c, new)
          /\ UNCHANGED <<done, unsaid>> /\ put[c].pc = "create"
          /\ spoilt' = (spoilt \/ main # NoFile)
      BY <1>5, <2>2 DEF Create
    <3>2. i \in Inodes  BY <3>1, <1>0, OpenedIsFile DEF RestOK
    <3>3. put[c].from = NoFile  BY <3>1, <1>0 DEF PutsOK
    <3>4. new \in PutType /\ new.pc = "fill" /\ new.to # NoFile /\ new.from = NoFile
      BY <3>2, <3>3, <1>a DEF PutType, Copying, IniAssumption
    <3>5. PutsOK'  BY <3>1, <3>4, GotoTyped DEF PutsOK
    <3> QED BY <1>0, <1>5, <3>1, <3>2, <3>5, EmptiedTyped DEF Create, RestOK
  <2> QED BY <2>1, <2>2
<1>6. ASSUME NEW c \in Components, Fill(c) PROVE PutsOK' /\ RestOK'
  <2>1. put[c].to \in Inodes  BY <1>6, <1>0 DEF Fill, PutsOK, PutType
  <2>2. text' \in [Inodes -> [Components -> Stores]]
    <3>1. CASE CutLine(put[c].to, c)  BY <2>1, <3>1, <1>0, CutTyped
    <3>2. CASE text' = [text EXCEPT ![put[c].to][c] = put[c].value]
      BY <2>1, <3>2, <1>0, <1>a, WrittenTyped
    <3> QED BY <1>6, <3>1, <3>2 DEF Fill
  <2> QED BY <1>0, <1>6, <2>2, ReturnTyped DEF Fill, PutsOK, RestOK
<1>7. ASSUME NEW c \in Components, OpenTemp(c) PROVE PutsOK' /\ RestOK'
  <2>1. CASE Return(c, 0) /\ UNCHANGED <<text, temp>>
    BY <2>1, <1>0, <1>7, ReturnTyped DEF OpenTemp, PutsOK, RestOK
  <2>2. CASE ~(Return(c, 0) /\ UNCHANGED <<text, temp>>)
    <3> DEFINE i == Opened(temp)
               new == [put[c] EXCEPT !.pc = "reopen", !.to = i]
    <3>1. Room(temp) /\ temp' = i /\ text' = [text EXCEPT ![i] = Empty] /\ Goto(c, new)
          /\ UNCHANGED <<done, unsaid>> /\ put[c].pc = "open"
      BY <1>7, <2>2 DEF OpenTemp
    <3>2. i \in Inodes  BY <3>1, <1>0, OpenedIsFile DEF RestOK
    <3>3. put[c].from = NoFile  BY <3>1, <1>0 DEF PutsOK
    <3>4. new \in PutType /\ new.pc = "reopen" /\ new.to # NoFile /\ new.from = NoFile
      BY <3>2, <3>3, <1>a DEF PutType, Copying, IniAssumption
    <3>5. PutsOK'  BY <3>1, <3>4, GotoTyped DEF PutsOK
    <3> QED BY <1>0, <1>7, <3>1, <3>2, <3>5, EmptiedTyped DEF OpenTemp, RestOK
  <2> QED BY <2>1, <2>2
<1>8. ASSUME NEW c \in Components, Reopen(c) PROVE PutsOK' /\ RestOK'
  <2>1. put[c].to \in Inodes /\ put[c].from = NoFile
    BY <1>8, <1>0 DEF Reopen, PutsOK, PutType
  <2>2. CASE main # NoFile /\ Goto(c, [put[c] EXCEPT !.pc = "copy", !.from = main])
             /\ UNCHANGED <<text, done, unsaid>>
    <3> DEFINE new == [put[c] EXCEPT !.pc = "copy", !.from = main]
    <3>2. main \in Inodes  BY <2>2, <1>0 DEF RestOK
    <3>3. new \in PutType /\ new.pc = "copy" /\ new.from # NoFile /\ new.to # NoFile
      BY <3>2, <2>1, <1>a DEF PutType, Copying, IniAssumption
    <3>4. PutsOK'  BY <2>2, <3>3, GotoTyped DEF PutsOK
    <3> QED BY <1>0, <1>8, <2>2, <3>4 DEF Reopen, RestOK
  <2>3. CASE ReturnUnsaid(c) /\ text' = [text EXCEPT ![put[c].to][c] = put[c].value]
    <3>2. text' \in [Inodes -> [Components -> Stores]]
      BY <2>1, <2>3, <1>0, <1>a, WrittenTyped
    <3> QED BY <1>0, <1>8, <2>3, <3>2, ReturnTyped DEF Reopen, PutsOK, RestOK
  <2> QED BY <1>8, <2>2, <2>3 DEF Reopen
<1>9. ASSUME NEW c \in Components, Copy(c) PROVE PutsOK' /\ RestOK'
  <2> DEFINE new == [put[c] EXCEPT !.pc = "remove", !.from = NoFile]
  <2>1. put[c].to \in Inodes  BY <1>9, <1>0 DEF Copy, PutsOK, PutType
  <2>2. new \in PutType /\ new.pc = "remove" /\ new.from = NoFile /\ new.to # NoFile
    BY <2>1, <1>a DEF PutType, Copying, IniAssumption
  <2>3. PutsOK'  BY <2>2, <1>9, GotoTyped DEF PutsOK, Copy
  <2>4. PICK t \in [Components -> Stores] : text' = [text EXCEPT ![put[c].to] = t]
    BY <1>9 DEF Copy, Over
  <2>5. text' \in [Inodes -> [Components -> Stores]]  BY <2>4, <2>1, <1>0 DEF RestOK
  <2>6. spoilt' \in BOOLEAN  BY <1>0, <1>9 DEF Copy, RestOK
  <2> QED BY <1>0, <1>9, <2>3, <2>5, <2>6 DEF Copy, RestOK
<1>10. ASSUME NEW c \in Components, Remove(c) PROVE PutsOK' /\ RestOK'
  <2> DEFINE new == [put[c] EXCEPT !.pc = "rename", !.to = NoFile]
  <2>1. put[c].from = NoFile  BY <1>10, <1>0 DEF Remove, PutsOK
  <2>2. new \in PutType /\ new.pc = "rename" /\ new.from = NoFile /\ new.to = NoFile
    BY <2>1, <1>a DEF PutType, Copying
  <2>3. PutsOK'  BY <2>2, <1>10, GotoTyped DEF PutsOK, Remove
  <2> QED BY <1>0, <1>10, <2>3 DEF Remove, RestOK
<1>11. ASSUME NEW c \in Components, Rename(c) PROVE PutsOK' /\ RestOK'
  BY <1>0, <1>11, ReturnTyped DEF Rename, PutsOK, RestOK
<1>20. ASSUME NEW c \in Components, RenameFails(c) PROVE PutsOK' /\ RestOK'
  BY <1>0, <1>20, ReturnTyped DEF RenameFails, PutsOK, RestOK
<1>12. ASSUME Died, crashes' \in 0..MaxCrashes PROVE PutsOK' /\ RestOK'
  <2>1. NoPut \in PutType /\ NoPut.to = NoFile /\ NoPut.from = NoFile /\ NoPut.pc = "idle"
    BY DEF NoPut, PutType, Stores
  <2>2. put' \in [Components -> PutType] /\ \A c \in Components : put'[c] = NoPut
    BY <1>12, <2>1 DEF Died
  <2>3. PutsOK'  BY <2>1, <2>2, <1>0, <1>12 DEF Died, PutsOK
  <2> QED BY <2>3, <1>0, <1>12 DEF Died, RestOK
<1>13. CASE Crash
  <2>1. crashes' \in 0..MaxCrashes  BY <1>13, <1>0 DEF Crash, RestOK, IniAssumption
  <2> QED BY <2>1, <1>12, <1>13 DEF Crash
<1>14. CASE Die
  BY <1>14, <1>12, <1>0 DEF Die, RestOK
<1>15. CASE UNCHANGED iniVars
  BY <1>15, <1>0 DEF iniVars, PutsOK, RestOK, PutType
<1>16. CASE \E c \in Components : IniPuts(c)
  BY <1>16, <1>2, <1>4, <1>5, <1>6, <1>7, <1>8, <1>9, <1>10, <1>11, <1>18, <1>19, <1>20
     DEF IniPuts
<1>17. CASE \E c \in Components, v \in Stores : Put(c, v)  BY <1>17, <1>1
<1> QED BY <1>13, <1>14, <1>15, <1>16, <1>17 DEF IniNext

\* Every variable has its type, and an ini_puts() writes to a file it opened
\* (IniTypeOK, minIni.c:681-903), for any components, values and files.
THEOREM TypeCorrect == IniSpec => []IniTypeOK
<1>1. IniInit => IniTypeOK  BY IniAssumption, TypeInit
<1>2. IniTypeOK /\ [IniNext]_iniVars => IniTypeOK'  BY IniAssumption, TypeStep
<1> QED BY <1>1, <1>2, PTL DEF IniSpec

-----------------------------------------------------------------------------
(* A store of keys                                                         *)

\* What a call that goes on without a race knows of the others.
LEMMA GotoCalm ==
  ASSUME IniTypeOK, Calm, ~Lost, ~Lost', NEW c \in Components, NEW new, Goto(c, new)
  PROVE  /\ Exclusive'
         /\ put' = [put EXCEPT ![c] = new]
         /\ \A d \in Components : put'[d] = IF d = c THEN new ELSE put[d]
         /\ \A d \in Components \ {c} :
              /\ put[c].pc \in Copying => put[d].pc = "idle"
              /\ new.pc \in Copying => put[d].pc = "idle"
              /\ put[c].pc # "idle" \/ new.pc # "idle" => put[d].pc \notin Copying
<1>1. put \in [Components -> PutType] /\ raced \in BOOLEAN
  BY DEF IniTypeOK, PutType
<1>2. put' = [put EXCEPT ![c] = new]  BY DEF Goto
<1>3. ~raced' /\ Exclusive  BY DEF Lost, Calm
<1>4. ASSUME NEW d \in Components \ {c}
      PROVE  /\ put[c].pc \in Copying => put[d].pc = "idle"
             /\ new.pc \in Copying => put[d].pc = "idle"
             /\ put[c].pc # "idle" \/ new.pc # "idle" => put[d].pc \notin Copying
  <2>1. put[d].pc = "idle" \/ new.pc = "idle" \/ (put[d].pc \notin Copying /\ new.pc \notin Copying)
    BY <1>3 DEF Goto
  <2>2. "idle" \notin Copying  BY DEF Copying
  <2>3. /\ put[c].pc \in Copying => put[d].pc = "idle"
        /\ put[d].pc \in Copying => put[c].pc = "idle"
    BY <1>3 DEF Exclusive
  <2> QED BY <2>1, <2>2, <2>3
<1>5. \A d \in Components : put'[d] = IF d = c THEN new ELSE put[d]  BY <1>1, <1>2
<1>6. Exclusive'
  <2> SUFFICES ASSUME NEW a \in Components, NEW d \in Components, a # d, put'[a].pc \in Copying
               PROVE  put'[d].pc = "idle"
    BY DEF Exclusive
  <2>1. CASE a = c  BY <2>1, <1>4, <1>5
  <2>2. CASE d = c
    <3>1. put[a].pc \in Copying  BY <2>2, <1>5
    <3> QED BY <3>1, <2>2, <1>4, <1>5
  <2>3. CASE a # c /\ d # c
    BY <2>3, <1>3, <1>5 DEF Exclusive
  <2> QED BY <2>1, <2>2, <2>3
<1> QED BY <1>2, <1>4, <1>5, <1>6

\* A call that is not copying has no stage to keep.
LEMMA NotCopying == ASSUME NEW c, put[c].pc \notin Copying PROVE Stage(c)
  BY DEF Stage, Copying

\* Neither has any other call, when one goes on without a race.
LEMMA OthersStaged ==
  ASSUME IniTypeOK, Calm, ~Lost, ~Lost', NEW c \in Components, NEW new, Goto(c, new),
         put[c].pc # "idle" \/ new.pc # "idle"
  PROVE  \A d \in Components \ {c} : put[d].pc \notin Copying /\ Stage(d)'
<1> SUFFICES ASSUME NEW d \in Components \ {c} PROVE put[d].pc \notin Copying /\ Stage(d)'
  OBVIOUS
<1>1. put[d].pc \notin Copying /\ put'[d] = put[d]  BY GotoCalm
<1>2. put'[d].pc \notin Copying  BY <1>1
<1> QED BY <1>1, <1>2 DEF Stage, Copying

LEMMA NoPutTyped ==
  NoPut \in PutType /\ NoPut.pc = "idle" /\ NoPut.to = NoFile /\ NoPut.from = NoFile
BY DEF NoPut, PutType, Stores

LEMMA CalmInit == ASSUME IniAssumption, IniInit PROVE Calm
<1>1. main \in Inodes /\ main # NoFile /\ temp = NoFile
  BY DEF IniInit, IniAssumption
<1>2. \A c \in Components : put[c].pc = "idle"  BY NoPutTyped DEF IniInit
<1>3. "idle" \notin Copying  BY DEF Copying
<1> QED BY <1>1, <1>2, <1>3, NotCopying DEF Calm, Exclusive, Whole

LEMMA StoreInit == ASSUME IniAssumption, IniInit PROVE Keys!Init
<1>1. /\ main \in Inodes /\ main # NoFile /\ done = Empty /\ unsaid = {}
      /\ Lost = FALSE
  BY DEF IniInit, IniAssumption, Lost
<1>2. text[main] = Empty  BY <1>1 DEF IniInit
<1>3. \A c \in Components : put[c].pc = "idle" /\ put[c].value = NoKey
  BY DEF IniInit, NoPut
<1>4. StoredKeys = Empty  BY <1>1, <1>2 DEF StoredKeys
<1>5. Progress = [c \in Components |-> "none"]  BY <1>3 DEF Progress, Phase
<1>6. Wishes = [c \in Components |-> NoKey]  BY <1>3 DEF Wishes
<1>7. Adrift = FALSE  BY <1>1 DEF Adrift
<1> QED BY <1>1, <1>4, <1>5, <1>6, <1>7 DEF Keys!Init, Empty

\* What is seen of the store when a call goes on without a race.
LEMMA MapGoto ==
  ASSUME IniTypeOK, Calm, ~Lost, ~Lost', NEW c \in Components, NEW new, Goto(c, new),
         put[c].pc # "idle" \/ new.pc # "idle"
  PROVE  /\ Progress[c] = Phase(put[c].pc, main # NoFile) /\ Wishes[c] = put[c].value
         /\ Progress' = [Progress EXCEPT ![c] = Phase(new.pc, main' # NoFile)]
         /\ Wishes' = [Wishes EXCEPT ![c] = new.value]
         /\ Adrift = (main = NoFile /\ put[c].pc # "rename")
         /\ Adrift' = (main' = NoFile /\ new.pc # "rename")
         /\ StoredKeys = text[IF main # NoFile THEN main ELSE temp]
         /\ StoredKeys' = text'[IF main' # NoFile THEN main' ELSE temp']
         /\ UNCHANGED Lost
         /\ Stage(c)' /\ Whole' => Calm'
<1>1. /\ Exclusive'
      /\ \A d \in Components : put'[d] = IF d = c THEN new ELSE put[d]
  BY GotoCalm
<1>2. \A d \in Components \ {c} : put[d].pc \notin Copying /\ Stage(d)'  BY OthersStaged
<1>3. \A d \in Components \ {c} : put[d].pc # "rename" /\ put'[d].pc # "rename"
  BY <1>1, <1>2 DEF Copying
<1>4. Progress' = [Progress EXCEPT ![c] = Phase(new.pc, main' # NoFile)]
  <2>1. \A d \in Components \ {c} :
          Phase(put[d].pc, main' # NoFile) = Phase(put[d].pc, main # NoFile)
    BY <1>3 DEF Phase
  <2> QED BY <1>1, <2>1 DEF Progress
<1>5. Wishes' = [Wishes EXCEPT ![c] = new.value]  BY <1>1 DEF Wishes
<1>6. Adrift = (main = NoFile /\ put[c].pc # "rename")  BY <1>3 DEF Adrift
<1>7. Adrift' = (main' = NoFile /\ new.pc # "rename")  BY <1>1, <1>3 DEF Adrift
<1>8. UNCHANGED Lost  BY Zenon DEF Lost
<1>9. Stage(c)' /\ Whole' => Calm'  BY <1>1, <1>2 DEF Calm
<1>11. Progress[c] = Phase(put[c].pc, main # NoFile) /\ Wishes[c] = put[c].value
  BY DEF Progress, Wishes
<1> QED BY <1>4, <1>5, <1>6, <1>7, <1>8, <1>9, <1>11 DEF StoredKeys

\* And when it answers.
LEMMA MapReturn ==
  ASSUME IniTypeOK, Calm, ~Lost, ~Lost', NEW c \in Components, put[c].pc # "idle",
         Return(c, 0) \/ Return(c, 1) \/ ReturnUnsaid(c)
  PROVE  /\ Keys!Answered(c)
         /\ Return(c, 1) => Keys!Tell(c) /\ unsaid' = unsaid \ {c}
         /\ Return(c, 0) => UNCHANGED <<done, unsaid>>
         /\ ReturnUnsaid(c) => Keys!Tell(c) /\ unsaid' = unsaid \cup {c}
         /\ Progress[c] = Phase(put[c].pc, main # NoFile) /\ Wishes[c] = put[c].value
         /\ Adrift = (main = NoFile /\ put[c].pc # "rename")
         /\ Adrift' = (main' = NoFile)
         /\ StoredKeys = text[IF main # NoFile THEN main ELSE temp]
         /\ StoredKeys' = text'[IF main' # NoFile THEN main' ELSE temp']
         /\ UNCHANGED Lost
         /\ Whole' => Calm'
<1>1. Goto(c, NoPut)  BY DEF Return, ReturnUnsaid
<1>2. NoPut.pc = "idle" /\ NoPut.value = NoKey  BY DEF NoPut
<1>3. Phase(NoPut.pc, main' # NoFile) = "none"  BY <1>2 DEF Phase
<1>4. Keys!Answered(c)  BY <1>1, <1>2, <1>3, MapGoto DEF Keys!Answered
<1>5. Return(c, 1) \/ ReturnUnsaid(c) => Keys!Tell(c)
  BY <1>1, <1>4, MapGoto DEF Keys!Tell, Return, ReturnUnsaid
<1>6. put'[c] = NoPut  BY <1>1, GotoCalm
<1>7. Stage(c)'  BY <1>6, <1>2 DEF Stage
<1>8. /\ Return(c, 1) => unsaid' = unsaid \ {c}
      /\ Return(c, 0) => UNCHANGED <<done, unsaid>>
      /\ ReturnUnsaid(c) => unsaid' = unsaid \cup {c}
  BY DEF Return, ReturnUnsaid
<1> QED BY <1>1, <1>2, <1>4, <1>5, <1>7, <1>8, MapGoto

\* A step of the store, or of one call on it that nobody sees.
KeyStep(c) == (Keys!Step(c) \/ UNCHANGED Keys!keyVars) /\ UNCHANGED Lost

\* A call that has not taken anything yet goes on, and the file that counts stays.
LEMMA StillAsked ==
  ASSUME IniTypeOK, Calm, ~Lost, ~Lost', NEW c \in Components, NEW new, Goto(c, new),
         UNCHANGED <<main, done, unsaid>>, new.value = put[c].value,
         put[c].pc \notin {"idle", "rename"}, new.pc \notin {"idle", "rename"},
         text'[IF main # NoFile THEN main ELSE temp'] = text[IF main # NoFile THEN main ELSE temp],
         Stage(c)', Whole'
  PROVE  Calm' /\ KeyStep(c)
<1>1. UNCHANGED <<StoredKeys, Adrift, Lost>> /\ Calm'  BY MapGoto
<1>2. Phase(put[c].pc, main # NoFile) = "asked" /\ Phase(new.pc, main' # NoFile) = "asked"
  BY DEF Phase
<1>3. /\ Progress' = [Progress EXCEPT ![c] = Progress[c]]
      /\ Wishes' = [Wishes EXCEPT ![c] = Wishes[c]]
  BY <1>2, MapGoto
<1>4. UNCHANGED <<Progress, Wishes>>  BY <1>3 DEF Progress, Wishes
<1> QED BY <1>1, <1>4 DEF KeyStep, Keys!keyVars

\* It answers 0, or 1 after a failure that at most cost it its own line.
LEMMA Untaken ==
  ASSUME IniTypeOK, Calm, ~Lost, ~Lost', NEW c \in Components,
         put[c].pc # "idle", put[c].pc = "rename" => main # NoFile,
         UNCHANGED <<main, temp>>,
         \/ UNCHANGED text /\ Return(c, 0)
         \/ UNCHANGED text /\ ReturnUnsaid(c)
         \/ main # NoFile /\ CutLine(main, c) /\ ReturnUnsaid(c)
         \/ ReturnUnsaid(c) /\ main # NoFile /\ text'[main] = text[main]
  PROVE  Calm' /\ KeyStep(c)
<1>1. Whole'  BY DEF Calm, Whole
<1>2. Phase(put[c].pc, main # NoFile) = "asked"  BY DEF Phase
<1>3. UNCHANGED Adrift  BY MapReturn
<1>4. main # NoFile => main \in Inodes /\ text \in [Inodes -> [Components -> Stores]]
  BY DEF IniTypeOK
<1>5. CASE Return(c, 0) /\ UNCHANGED text
  <2>1. UNCHANGED StoredKeys  BY <1>5, MapReturn
  <2>2. Keys!NotStored(c)  BY <1>2, <1>3, <1>5, <2>1, MapReturn DEF Keys!NotStored
  <2> QED BY <1>1, <1>5, <2>2, MapReturn DEF KeyStep, Keys!Step
<1>6. CASE ReturnUnsaid(c) /\ UNCHANGED StoredKeys
  <2>1. Keys!Mislead(c)  BY <1>2, <1>3, <1>6, MapReturn DEF Keys!Mislead
  <2> QED BY <1>1, <1>6, <2>1, MapReturn DEF KeyStep, Keys!Step
<1>7. CASE main # NoFile /\ CutLine(main, c) /\ ReturnUnsaid(c)
  <2>1. PICK v \in Stores : text' = [text EXCEPT ![main][c] = v]  BY <1>7 DEF CutLine
  <2>2. StoredKeys' = [StoredKeys EXCEPT ![c] = v]  BY <1>4, <1>7, <2>1, MapReturn
  <2>3. Adrift = FALSE  BY <1>7, MapReturn
  <2>4. Keys!Mislead(c)
    BY <1>2, <1>3, <1>7, <2>2, <2>3, MapReturn DEF Keys!Mislead, Stores
  <2> QED BY <1>1, <1>7, <2>4, MapReturn DEF KeyStep, Keys!Step
<1>8. UNCHANGED text \/ (main # NoFile /\ text'[main] = text[main]) =>
        (ReturnUnsaid(c) => UNCHANGED StoredKeys)
  BY MapReturn
<1> QED BY <1>5, <1>6, <1>7, <1>8

\* One action of ini_puts() after the other: none disturbs the calm, and each is
\* a step of the store or none that is seen.
LEMMA PutKept ==
  ASSUME IniTypeOK, Calm, ~Lost, ~Lost', NEW c \in Components, NEW v \in Stores, Put(c, v)
  PROVE  Calm' /\ KeyStep(c)
<1> DEFINE new == [NoPut EXCEPT !.pc = "search", !.value = v]
<1>1. new.pc = "search" /\ new.value = v /\ put[c].pc = "idle"  BY DEF NoPut, Put
<1>2. Goto(c, new) /\ UNCHANGED <<text, main, temp, done, unsaid>>  BY DEF Put
<1> HIDE DEF new
<1>3. put'[c] = new  BY <1>2, GotoCalm
<1>4. Stage(c)'  BY <1>1, <1>3 DEF Stage
<1>5. Whole'  BY <1>1, <1>2 DEF Calm, Whole
<1>6. Calm'  BY <1>1, <1>2, <1>4, <1>5, MapGoto
<1>7. Phase(put[c].pc, main # NoFile) = "none" /\ Phase(new.pc, main' # NoFile) = "asked"
  BY <1>1 DEF Phase
<1>8. UNCHANGED <<StoredKeys, Adrift, Lost>>  BY <1>1, <1>2, MapGoto
<1>9. Keys!Ask(c, v)  BY <1>1, <1>2, <1>7, <1>8, MapGoto DEF Keys!Ask
<1>10. Keys!Step(c)  BY <1>9 DEF Keys!Step, Stores
<1> QED BY <1>6, <1>8, <1>10 DEF KeyStep

LEMMA SearchSameKept ==
  ASSUME IniTypeOK, Calm, ~Lost, ~Lost', NEW c \in Components, SearchSame(c)
  PROVE  Calm' /\ KeyStep(c)
<1>1. /\ put[c].pc = "search" /\ main # NoFile /\ Return(c, 1)
      /\ text[main][c] = put[c].value /\ UNCHANGED <<text, main, temp>>
  BY DEF SearchSame
<1>2. main \in Inodes /\ text \in [Inodes -> [Components -> Stores]]
  BY <1>1 DEF IniTypeOK
<1>3. Whole'  BY <1>1 DEF Calm, Whole
<1>4. Phase(put[c].pc, main # NoFile) = "asked"  BY <1>1 DEF Phase
<1>5. [text[main] EXCEPT ![c] = put[c].value] = text[main]  BY <1>1, <1>2
<1>6. StoredKeys' = [StoredKeys EXCEPT ![c] = Wishes[c]]  BY <1>1, <1>5, MapReturn
<1>7. Adrift = FALSE /\ Adrift' = FALSE  BY <1>1, MapReturn
<1>8. Keys!Stored(c)  BY <1>1, <1>4, <1>6, <1>7, MapReturn DEF Keys!Stored
<1> QED BY <1>1, <1>3, <1>8, MapReturn DEF KeyStep, Keys!Step

LEMMA SearchKept ==
  ASSUME IniTypeOK, Calm, ~Lost, ~Lost', NEW c \in Components,
         Search(c) \/ SearchFails(c)
  PROVE  Calm' /\ KeyStep(c)
<1>1. put[c].pc = "search" /\ UNCHANGED <<text, main, temp>>  BY DEF Search, SearchFails
<1>2. ASSUME NEW pc \in {"create", "rewrite", "open"}, Goto(c, [put[c] EXCEPT !.pc = pc]),
             UNCHANGED <<done, unsaid>>, pc = "create" => put[c].value # NoKey,
             pc # "create" => main # NoFile
      PROVE  Calm' /\ KeyStep(c)
  <2> DEFINE new == [put[c] EXCEPT !.pc = pc]
  <2>1. new.pc = pc /\ new.value = put[c].value  BY DEF IniTypeOK
  <2>2. Goto(c, new)  BY <1>2
  <2> HIDE DEF new
  <2>3. put'[c] = new  BY <2>2, GotoCalm
  <2>4. Stage(c)'  BY <2>1, <2>3, <1>1, <1>2 DEF Stage
  <2>5. Whole'  BY <1>1 DEF Calm, Whole
  <2> QED BY <1>1, <1>2, <2>1, <2>2, <2>4, <2>5, StillAsked
<1>3. CASE SearchFails(c) /\ put[c].value = NoKey
  <2>1. ReturnUnsaid(c)  BY <1>3 DEF SearchFails
  <2> QED BY <1>1, <2>1, Untaken
<1>4. CASE SearchFails(c) /\ put[c].value # NoKey
  <2>1. Goto(c, [put[c] EXCEPT !.pc = "create"]) /\ UNCHANGED <<done, unsaid>>
    BY <1>4 DEF SearchFails
  <2> QED BY <1>2, <1>4, <2>1
<1>5. CASE Search(c)
  <2> DEFINE inPlace == /\ put[c].value # NoKey /\ text[main][c] # NoKey
                        /\ Width[put[c].value] = Width[text[main][c]]
             pc == IF inPlace THEN "rewrite" ELSE "open"
  <2>1. Goto(c, [put[c] EXCEPT !.pc = pc]) /\ UNCHANGED <<done, unsaid>> /\ main # NoFile
    BY <1>5, Zenon DEF Search
  <2>2. pc \in {"create", "rewrite", "open"} /\ pc # "create"  OBVIOUS
  <2> HIDE DEF pc
  <2> QED BY <1>2, <2>1, <2>2
<1> QED BY <1>3, <1>4, <1>5

LEMMA RewriteKept ==
  ASSUME IniTypeOK, Calm, ~Lost, ~Lost', NEW c \in Components, Rewrite(c)
  PROVE  Calm' /\ KeyStep(c)
<1>1. put[c].pc = "rewrite" /\ UNCHANGED <<main, temp>>  BY DEF Rewrite
<1>2. CASE ~(Return(c, 1) /\ main # NoFile /\ text' = [text EXCEPT ![main][c] = put[c].value])
  BY <1>1, <1>2, Untaken DEF Rewrite
<1>3. CASE Return(c, 1) /\ main # NoFile /\ text' = [text EXCEPT ![main][c] = put[c].value]
  <2>1. Phase(put[c].pc, main # NoFile) = "asked"  BY <1>1 DEF Phase
  <2>2. main \in Inodes /\ text \in [Inodes -> [Components -> Stores]]
    BY <1>3 DEF IniTypeOK
  <2>3. text'[main] = [text[main] EXCEPT ![c] = put[c].value]  BY <1>3, <2>2
  <2>4. Whole'  BY <1>1 DEF Calm, Whole
  <2>5. StoredKeys' = [StoredKeys EXCEPT ![c] = Wishes[c]]  BY <1>1, <1>3, <2>3, MapReturn
  <2>6. Adrift = FALSE /\ Adrift' = FALSE  BY <1>1, <1>3, MapReturn
  <2>7. Keys!Stored(c)  BY <1>1, <1>3, <2>1, <2>5, <2>6, MapReturn DEF Keys!Stored
  <2> QED BY <1>1, <1>3, <2>4, <2>7, MapReturn DEF KeyStep, Keys!Step
<1> QED BY <1>2, <1>3

LEMMA CreateKept ==
  ASSUME IniAssumption, IniTypeOK, Calm, ~Lost, ~Lost', NEW c \in Components, Create(c)
  PROVE  Calm' /\ KeyStep(c)
<1>1. put[c].pc = "create" /\ UNCHANGED temp  BY DEF Create
<1>2. Phase(put[c].pc, main # NoFile) = "asked"  BY <1>1 DEF Phase
<1>3. CASE Return(c, 0) /\ UNCHANGED <<text, main, spoilt>>
  BY <1>1, <1>3, Untaken
<1>4. CASE ~(Return(c, 0) /\ UNCHANGED <<text, main, spoilt>>)
  <2> DEFINE i == Opened(main)
             new == [put[c] EXCEPT !.pc = "fill", !.to = i]
  <2>1. /\ Room(main) /\ main' = i /\ text' = [text EXCEPT ![i] = Empty]
        /\ Goto(c, new) /\ UNCHANGED <<done, unsaid>>
        /\ spoilt' = (spoilt \/ main # NoFile)
    BY <1>4 DEF Create
  <2>2. i \in Inodes /\ (main = NoFile => i \notin InUse)
    BY <2>1, OpenedIsFile DEF IniTypeOK
  <2>3. new.pc = "fill" /\ new.to = i /\ new.value = put[c].value  BY DEF IniTypeOK
  <2> HIDE DEF i, new
  <2>4. main = NoFile /\ put[c].value # NoKey
    BY <1>1, <2>1 DEF Calm, Stage, Lost
  <2>5. i # NoFile /\ i # temp  BY <2>2, <2>4 DEF InUse, IniAssumption
  <2>6. Whole'  BY <1>1, <2>1, <2>5 DEF Whole
  <2>7. put'[c] = new  BY <2>1, GotoCalm
  <2>8. Stage(c)'  BY <2>1, <2>3, <2>5, <2>7 DEF Stage
  <2>9. text'[i] = Empty  BY <2>1, <2>2 DEF IniTypeOK
  <2>10. StoredKeys' = [d \in Components |-> NoKey]
    BY <1>1, <2>1, <2>5, <2>9, MapGoto DEF Empty
  <2>11. Adrift = TRUE /\ Adrift' = FALSE  BY <1>1, <2>1, <2>4, <2>5, MapGoto
  <2>12. Phase(new.pc, main' # NoFile) = "asked"  BY <2>3 DEF Phase
  <2>13. UNCHANGED <<Progress, Wishes>>
    <3>1. /\ Progress' = [Progress EXCEPT ![c] = Progress[c]]
          /\ Wishes' = [Wishes EXCEPT ![c] = Wishes[c]]
      BY <1>1, <1>2, <2>1, <2>3, <2>12, MapGoto
    <3> QED BY <3>1 DEF Progress, Wishes
  <2>14. Progress[c] = "asked" /\ Wishes[c] # NoKey  BY <1>1, <1>2, <2>1, <2>4, MapGoto
  <2>15. Keys!Renew(c)  BY <2>1, <2>10, <2>11, <2>13, <2>14 DEF Keys!Renew
  <2> QED BY <1>1, <2>1, <2>6, <2>8, <2>15, MapGoto DEF KeyStep, Keys!Step
<1> QED BY <1>3, <1>4

LEMMA FillKept ==
  ASSUME IniTypeOK, Calm, ~Lost, ~Lost', NEW c \in Components, Fill(c)
  PROVE  Calm' /\ KeyStep(c)
<1>1. put[c].pc = "fill" /\ UNCHANGED <<main, temp>>  BY DEF Fill
<1>2. main # NoFile /\ put[c].to = main  BY <1>1 DEF Calm, Stage
<1>3. CASE ReturnUnsaid(c) /\ CutLine(put[c].to, c)
  BY <1>1, <1>2, <1>3, Untaken
<1>4. CASE Return(c, 1) /\ text' = [text EXCEPT ![put[c].to][c] = put[c].value]
  <2>1. Phase(put[c].pc, main # NoFile) = "asked"  BY <1>1 DEF Phase
  <2>2. main \in Inodes /\ text \in [Inodes -> [Components -> Stores]]
    BY <1>2 DEF IniTypeOK
  <2>3. text'[main] = [text[main] EXCEPT ![c] = put[c].value]  BY <1>2, <1>4, <2>2
  <2>4. Whole'  BY <1>1 DEF Calm, Whole
  <2>5. StoredKeys' = [StoredKeys EXCEPT ![c] = Wishes[c]]
    BY <1>1, <1>2, <1>4, <2>3, MapReturn
  <2>6. Adrift = FALSE /\ Adrift' = FALSE  BY <1>1, <1>2, <1>4, MapReturn
  <2>7. Keys!Stored(c)  BY <1>1, <1>4, <2>1, <2>5, <2>6, MapReturn DEF Keys!Stored
  <2> QED BY <1>1, <1>4, <2>4, <2>7, MapReturn DEF KeyStep, Keys!Step
<1> QED BY <1>3, <1>4 DEF Fill

LEMMA OpenTempKept ==
  ASSUME IniAssumption, IniTypeOK, Calm, ~Lost, ~Lost', NEW c \in Components, OpenTemp(c)
  PROVE  Calm' /\ KeyStep(c)
<1>1. put[c].pc = "open" /\ UNCHANGED main  BY DEF OpenTemp
<1>2. CASE Return(c, 0) /\ UNCHANGED <<text, temp>>
  BY <1>1, <1>2, Untaken
<1>3. CASE ~(Return(c, 0) /\ UNCHANGED <<text, temp>>)
  <2> DEFINE i == Opened(temp)
             new == [put[c] EXCEPT !.pc = "reopen", !.to = i]
  <2>1. /\ Room(temp) /\ temp' = i /\ text' = [text EXCEPT ![i] = Empty]
        /\ Goto(c, new) /\ UNCHANGED <<done, unsaid>>
    BY <1>3 DEF OpenTemp
  <2>2. i \in Inodes /\ (temp = NoFile => i \notin InUse) /\ (temp # NoFile => i = temp)
    BY <2>1, OpenedIsFile DEF IniTypeOK
  <2>3. new.pc = "reopen" /\ new.to = i /\ new.value = put[c].value  BY DEF IniTypeOK
  <2> HIDE DEF i, new
  <2>4. main # NoFile /\ temp # main  BY <1>1 DEF Calm, Stage, Whole
  <2>5. i # NoFile /\ i # main  BY <2>2, <2>4 DEF InUse, IniAssumption
  <2>6. Whole'  BY <1>1, <2>1, <2>4, <2>5 DEF Whole
  <2>7. put'[c] = new  BY <2>1, GotoCalm
  <2>8. text'[i] = Empty /\ text'[main] = text[main]
    BY <2>1, <2>2, <2>4, <2>5 DEF IniTypeOK
  <2>9. Stage(c)'  BY <1>1, <2>1, <2>3, <2>4, <2>5, <2>7, <2>8 DEF Stage
  <2> QED BY <1>1, <2>1, <2>3, <2>4, <2>6, <2>8, <2>9, StillAsked
<1> QED BY <1>2, <1>3

LEMMA ReopenKept ==
  ASSUME IniAssumption, IniTypeOK, Calm, ~Lost, ~Lost', NEW c \in Components, Reopen(c)
  PROVE  Calm' /\ KeyStep(c)
<1>1. put[c].pc = "reopen" /\ UNCHANGED <<main, temp>>  BY DEF Reopen
<1>2. /\ main # NoFile /\ temp # NoFile /\ temp # main
      /\ put[c].to = temp /\ text[temp] = Empty
  BY <1>1 DEF Calm, Stage, Whole
<1> DEFINE new == [put[c] EXCEPT !.pc = "copy", !.from = main]
<1>3. CASE Goto(c, new) /\ UNCHANGED <<text, done, unsaid>>
  <2>1. new.pc = "copy" /\ new.from = main /\ new.to = put[c].to /\ new.value = put[c].value
    BY DEF IniTypeOK
  <2>2. Goto(c, new)  BY <1>3
  <2> HIDE DEF new
  <2>3. put'[c] = new  BY <2>2, GotoCalm
  <2>4. Stage(c)'  BY <1>1, <1>2, <1>3, <2>1, <2>3 DEF Stage
  <2>5. Whole'  BY <1>1 DEF Calm, Whole
  <2> QED BY <1>1, <1>3, <2>1, <2>4, <2>5, StillAsked
<1>4. CASE ReturnUnsaid(c) /\ text' = [text EXCEPT ![put[c].to][c] = put[c].value]
  <2>1. text'[main] = text[main]  BY <1>2, <1>4 DEF IniTypeOK
  <2> QED BY <1>1, <1>2, <1>4, <2>1, Untaken
<1> QED BY <1>3, <1>4 DEF Reopen

LEMMA CopyKept ==
  ASSUME IniAssumption, IniTypeOK, Calm, ~Lost, ~Lost', NEW c \in Components, Copy(c)
  PROVE  Calm' /\ KeyStep(c)
<1> DEFINE new == [put[c] EXCEPT !.pc = "remove", !.from = NoFile]
           whole == [text[main] EXCEPT ![c] = put[c].value]
<1>1. put[c].pc = "copy" /\ UNCHANGED <<main, temp, done, unsaid>> /\ Goto(c, new)
  BY DEF Copy
<1>3. new.pc = "remove" /\ new.value = put[c].value  BY DEF IniTypeOK
<1> HIDE DEF new
<1>4. /\ main # NoFile /\ put[c].from = main
      /\ temp # NoFile /\ put[c].to = temp /\ text[temp] = Empty /\ temp # main
  BY <1>1 DEF Calm, Stage, Whole
<1>5. /\ main \in Inodes /\ temp \in Inodes /\ text \in [Inodes -> [Components -> Stores]]
      /\ put[c].value \in Stores
  BY <1>4 DEF IniTypeOK
<1>6. PICK t \in Over(whole, Empty) : text' = [text EXCEPT ![temp] = t]
  <2>1. ~spoilt'  BY DEF Lost
  <2> QED BY <1>4, <2>1 DEF Copy
<1>7. t = whole
  <2>1. whole \in [Components -> Stores]  BY <1>5
  <2> HIDE DEF whole
  <2>2. t \in [Components -> Stores]
        /\ \A d \in Components : t[d] = whole[d] \/ (whole[d] = NoKey /\ t[d] = NoKey)
    BY <1>6 DEF Over, Empty
  <2>3. \A d \in Components : t[d] = whole[d]  BY <2>2
  <2> QED BY <2>1, <2>2, <2>3
<1>8. text'[temp] = whole /\ text'[main] = text[main]  BY <1>4, <1>5, <1>6, <1>7
<1>9. put'[c] = new  BY <1>1, GotoCalm
<1>10. Stage(c)'  BY <1>1, <1>3, <1>4, <1>8, <1>9 DEF Stage
<1>11. Whole'  BY <1>1 DEF Calm, Whole
<1> QED BY <1>1, <1>3, <1>4, <1>8, <1>10, <1>11, StillAsked

LEMMA RemoveKept ==
  ASSUME IniAssumption, IniTypeOK, Calm, ~Lost, ~Lost', NEW c \in Components, Remove(c)
  PROVE  Calm' /\ KeyStep(c)
<1> DEFINE new == [put[c] EXCEPT !.pc = "rename", !.to = NoFile]
<1>1. /\ put[c].pc = "remove" /\ UNCHANGED <<text, temp, done, unsaid>> /\ Goto(c, new)
      /\ main' = NoFile \/ UNCHANGED main
  BY DEF Remove
<1>2. Phase(put[c].pc, main # NoFile) = "asked"  BY <1>1 DEF Phase
<1>3. new.pc = "rename" /\ new.value = put[c].value  BY DEF IniTypeOK
<1> HIDE DEF new
<1>4. /\ main # NoFile /\ temp # NoFile /\ temp # main
      /\ text[temp] = [text[main] EXCEPT ![c] = put[c].value]
  BY <1>1 DEF Calm, Stage, Whole
<1>5. put'[c] = new  BY <1>1, GotoCalm
<1>6. Stage(c)'  BY <1>1, <1>3, <1>4, <1>5 DEF Stage
<1>7. Whole'  BY <1>1, <1>4 DEF Whole
<1>8. Wishes' = [Wishes EXCEPT ![c] = Wishes[c]]  BY <1>1, <1>3, MapGoto
<1>9. UNCHANGED Wishes  BY <1>8 DEF Wishes
<1>10. CASE main' = NoFile
  <2>1. Phase(new.pc, main' # NoFile) = "taken"  BY <1>3, <1>10 DEF Phase
  <2>2. StoredKeys' = [StoredKeys EXCEPT ![c] = Wishes[c]]  BY <1>1, <1>4, <1>10, MapGoto
  <2>3. Adrift = FALSE /\ Adrift' = FALSE  BY <1>1, <1>3, <1>4, MapGoto
  <2>4. Progress[c] = "asked" /\ Progress' = [Progress EXCEPT ![c] = "taken"]
    BY <1>1, <1>2, <2>1, MapGoto
  <2>5. Keys!Take(c)  BY <1>1, <1>9, <2>2, <2>3, <2>4 DEF Keys!Take
  <2> QED BY <1>1, <1>6, <1>7, <2>5, MapGoto DEF KeyStep, Keys!Step
<1>11. CASE UNCHANGED main
  <2>1. Phase(new.pc, main' # NoFile) = "asked"  BY <1>3, <1>4, <1>11 DEF Phase
  <2>2. UNCHANGED <<StoredKeys, Adrift>>  BY <1>1, <1>3, <1>4, <1>11, MapGoto
  <2>3. Progress' = [Progress EXCEPT ![c] = Progress[c]]
    BY <1>1, <1>2, <2>1, MapGoto
  <2>4. UNCHANGED Progress  BY <2>3 DEF Progress
  <2> QED BY <1>1, <1>6, <1>7, <1>9, <2>2, <2>4, MapGoto DEF KeyStep, Keys!keyVars
<1> QED BY <1>1, <1>10, <1>11

LEMMA RenameKept ==
  ASSUME IniAssumption, IniTypeOK, Calm, ~Lost, ~Lost', NEW c \in Components, Rename(c)
  PROVE  Calm' /\ KeyStep(c)
<1>1. /\ put[c].pc = "rename" /\ Return(c, 1) /\ UNCHANGED text
      /\ temp # NoFile /\ main' = temp /\ temp' = NoFile
  BY DEF Rename
<1>2. Whole'  BY <1>1 DEF Whole
<1>3. Adrift = FALSE /\ Adrift' = FALSE  BY <1>1, MapReturn
<1>4. CASE main = NoFile
  <2>1. Phase(put[c].pc, main # NoFile) = "taken"  BY <1>1, <1>4 DEF Phase
  <2>2. UNCHANGED StoredKeys  BY <1>1, <1>4, MapReturn
  <2>3. Keys!Stored(c)  BY <1>1, <1>3, <2>1, <2>2, MapReturn DEF Keys!Stored
  <2> QED BY <1>1, <1>2, <2>3, MapReturn DEF KeyStep, Keys!Step
<1>5. CASE main # NoFile
  <2>1. Phase(put[c].pc, main # NoFile) = "asked"  BY <1>1, <1>5 DEF Phase
  <2>2. text[temp] = [text[main] EXCEPT ![c] = put[c].value]
    BY <1>1, <1>5 DEF Calm, Stage
  <2>3. StoredKeys' = [StoredKeys EXCEPT ![c] = Wishes[c]]
    BY <1>1, <1>5, <2>2, MapReturn
  <2>4. Keys!Stored(c)  BY <1>1, <1>3, <2>1, <2>3, MapReturn DEF Keys!Stored
  <2> QED BY <1>1, <1>2, <2>4, MapReturn DEF KeyStep, Keys!Step
<1> QED BY <1>4, <1>5

LEMMA RenameFailsKept ==
  ASSUME IniTypeOK, Calm, ~Lost, ~Lost', NEW c \in Components, RenameFails(c)
  PROVE  Calm' /\ KeyStep(c)
<1>1. /\ put[c].pc = "rename" /\ ReturnUnsaid(c) /\ UNCHANGED <<text, main, temp>>
      /\ main # NoFile
  BY DEF RenameFails, Lost
<1> QED BY <1>1, Untaken

\* So with every step of a call.
LEMMA CallKept ==
  ASSUME IniAssumption, IniTypeOK, Calm, ~Lost, ~Lost', NEW c \in Components,
         IniPuts(c) \/ \E v \in Stores : Put(c, v)
  PROVE  Calm' /\ KeyStep(c)
BY PutKept, SearchSameKept, SearchKept, RewriteKept, CreateKept, FillKept, OpenTempKept,
   ReopenKept, CopyKept, RemoveKept, RenameKept, RenameFailsKept DEF IniPuts

\* A process that dies leaves the file alone.
LEMMA DiedKept ==
  ASSUME IniTypeOK, Calm, ~Lost, Died
  PROVE  Calm' /\ Keys!Die /\ UNCHANGED Lost
<1>1. /\ UNCHANGED <<text, main, temp, done, unsaid, raced, spoilt>>
      /\ put' = [c \in Components |-> NoPut]
  BY DEF Died
<1>2. NoPut.pc = "idle" /\ NoPut.value = NoKey  BY DEF NoPut
<1>3. \A c \in Components : put'[c].pc = "idle" /\ put'[c].value = NoKey  BY <1>1, <1>2
<1>4. \A c \in Components : Stage(c)'  BY <1>3 DEF Stage
<1>5. Exclusive'  BY <1>3 DEF Exclusive
<1>6. Calm'  BY <1>1, <1>4, <1>5 DEF Calm, Whole
<1>7. Progress' = [c \in Components |-> "none"]  BY <1>3 DEF Progress, Phase
<1>8. Wishes' = [c \in Components |-> NoKey]  BY <1>3 DEF Wishes
<1>9. UNCHANGED <<StoredKeys, Lost>>  BY <1>1 DEF StoredKeys, Lost
<1>10. \A c \in Components : Progress[c] = "taken" <=> put[c].pc = "rename" /\ main = NoFile
  BY DEF Progress, Phase
<1>11. Adrift' = (main = NoFile)  BY <1>1, <1>3 DEF Adrift
<1>12. Adrift = (main = NoFile /\ \A c \in Components : put[c].pc # "rename")
  BY DEF Adrift
<1>13. Adrift' = (Adrift \/ \E c \in Components : Progress[c] = "taken")
  BY <1>10, <1>11, <1>12
<1> QED BY <1>1, <1>6, <1>7, <1>8, <1>9, <1>13 DEF Keys!Die

\* Nothing is promised again once it was no longer.
LEMMA LostStays ==
  ASSUME Lost, [IniNext]_iniVars
  PROVE  Lost'
<1>1. ASSUME NEW c \in Components, NEW new, Goto(c, new), UNCHANGED spoilt PROVE Lost'
  BY <1>1 DEF Goto, Lost
<1>2. ASSUME NEW c \in Components, NEW new, Goto(c, new), spoilt' = TRUE \/ (spoilt => spoilt')
      PROVE  Lost'
  BY <1>2 DEF Goto, Lost
<1>3. ASSUME NEW c \in Components, Return(c, 0) \/ Return(c, 1) \/ ReturnUnsaid(c)
      PROVE  Goto(c, NoPut)
  BY <1>3 DEF Return, ReturnUnsaid
<1>4. ASSUME NEW c \in Components, IniPuts(c) PROVE Lost'
  <2>1. CASE SearchSame(c) \/ Rewrite(c) \/ Fill(c) \/ Rename(c)
    BY <1>1, <1>3, <2>1 DEF SearchSame, Rewrite, Fill, Rename
  <2>2. CASE Search(c)  BY <1>1, <2>2, Zenon DEF Search
  <2>3. CASE SearchFails(c)
    <3>1. (\E new : Goto(c, new)) /\ UNCHANGED spoilt
      BY <1>3, <2>3 DEF SearchFails
    <3> QED BY <1>1, <3>1
  <2>4. CASE Create(c)
    <3>0. CASE Return(c, 0) /\ UNCHANGED <<text, main, spoilt>>
      BY <1>1, <1>3, <3>0
    <3>1. CASE ~(Return(c, 0) /\ UNCHANGED <<text, main, spoilt>>)
      <4>1. /\ Goto(c, [put[c] EXCEPT !.pc = "fill", !.to = Opened(main)])
            /\ spoilt' = (spoilt \/ main # NoFile)
        BY <2>4, <3>1 DEF Create
      <4> QED BY <1>2, <4>1
    <3> QED BY <3>0, <3>1
  <2>5. CASE OpenTemp(c)
    <3>1. (\E new : Goto(c, new)) /\ UNCHANGED spoilt
      BY <1>3, <2>5 DEF OpenTemp
    <3> QED BY <1>1, <3>1
  <2>6. CASE Reopen(c)
    <3>1. (\E new : Goto(c, new)) /\ UNCHANGED spoilt
      BY <1>3, <2>6 DEF Reopen
    <3> QED BY <1>1, <3>1
  <2>7. CASE Copy(c)  BY <1>2, <2>7 DEF Copy
  <2>8. CASE Remove(c)  BY <1>1, <2>8 DEF Remove
  <2>9. CASE RenameFails(c)  BY <1>2, <1>3, <2>9 DEF RenameFails
  <2> QED BY <1>4, <2>1, <2>2, <2>3, <2>4, <2>5, <2>6, <2>7, <2>8, <2>9 DEF IniPuts
<1>5. ASSUME NEW c \in Components, NEW v \in Stores, Put(c, v) PROVE Lost'
  BY <1>1, <1>5 DEF Put
<1>6. CASE Crash \/ Die  BY <1>6 DEF Crash, Die, Died, Lost
<1>7. CASE UNCHANGED iniVars  BY <1>7 DEF iniVars, Lost
<1> QED BY <1>4, <1>5, <1>6, <1>7 DEF IniNext

\* Every step of the configuration file is one of the store, or none.
LEMMA StoreStep ==
  ASSUME IniAssumption, IniTypeOK, CalmInv, [IniNext]_iniVars
  PROVE  CalmInv' /\ [Keys!Next]_(Keys!keyVars)
<1>1. CASE Lost'
  <2>1. Lost' = TRUE  BY <1>1, Zenon DEF Lost
  <2> QED BY <1>1, <2>1 DEF Keys!Next, CalmInv
<1>2. CASE ~Lost'
  <2>1. ~Lost /\ Calm  BY <1>2, LostStays DEF CalmInv
  <2> SUFFICES Calm' /\ [Keys!Next]_(Keys!keyVars)  BY DEF CalmInv
  <2>2. ASSUME NEW c \in Components, KeyStep(c) PROVE [Keys!Next]_(Keys!keyVars)
    BY <2>2 DEF KeyStep, Keys!Next
  <2>3. CASE \E c \in Components : IniPuts(c) \/ \E v \in Stores : Put(c, v)
    BY <1>2, <2>1, <2>2, <2>3, CallKept
  <2>4. CASE Crash \/ Die
    <3>1. Died  BY <2>4 DEF Crash, Die
    <3> QED BY <2>1, <3>1, DiedKept DEF Keys!Next
  <2>5. CASE UNCHANGED iniVars
    <3>1. UNCHANGED <<text, main, temp, put, done, unsaid, raced, spoilt>>
      BY <2>5 DEF iniVars
    <3>2. Calm'  BY <2>1, <3>1 DEF Calm, Exclusive, Whole, Stage
    <3>3. UNCHANGED Keys!keyVars
      BY <3>1 DEF Keys!keyVars, StoredKeys, Progress, Wishes, Adrift, Lost
    <3> QED BY <3>2, <3>3
  <2> QED BY <2>3, <2>4, <2>5 DEF IniNext
<1> QED BY <1>1, <1>2

\* The configuration file is a store of keys, whenever the process dies and
\* whatever fails of what ini_puts() does to files (ImplementsKeyStore,
\* minIni.c:657-903): what it answers 1 to is stored, but for a failure it
\* ignores, which costs only the caller's own key.  It is one no longer once two
\* calls overlapped while one of them copied the file, or one of three failures
\* came about that cost others theirs: a file emptied because it could not be
\* opened, a copy cut short, a rename() that failed after remove().
THEOREM StoreImplemented == IniSpec => ImplementsKeyStore
<1>1. IniInit => CalmInv /\ Keys!Init  BY IniAssumption, CalmInit, StoreInit DEF CalmInv
<1>2. IniTypeOK /\ CalmInv /\ [IniNext]_iniVars => CalmInv' /\ [Keys!Next]_(Keys!keyVars)
  BY IniAssumption, StoreStep
<1> QED BY <1>1, <1>2, TypeCorrect, PTL DEF IniSpec, ImplementsKeyStore, Keys!Spec

\* A step of the store changes no key but that of a call, to its wish, or to
\* something else when its caller is misled.
LEMMA StepOwn ==
  ASSUME IniTypeOK, CalmInv, [Keys!Next]_(Keys!keyVars)
  PROVE  OwnChange
<1> SUFFICES ASSUME ~Lost', ~Adrift, NEW c \in Components, StoredKeys'[c] # StoredKeys[c]
             PROVE  put[c].pc # "idle" /\ (StoredKeys'[c] = put[c].value \/ c \in unsaid')
  BY DEF OwnChange
<1>1. ~(Lost' = TRUE) /\ ~UNCHANGED Keys!keyVars /\ ~Keys!Die
  BY DEF Keys!keyVars, Keys!Die
<1>2. PICK d \in Components : Keys!Step(d) /\ UNCHANGED Lost  BY <1>1 DEF Keys!Next
<1>3. ~Lost  BY <1>2
<1>4. StoredKeys \in [Components -> Stores]
  BY <1>3 DEF CalmInv, Calm, Whole, StoredKeys, IniTypeOK
<1>5. \/ StoredKeys' = [StoredKeys EXCEPT ![d] = Wishes[d]] /\ Progress[d] = "asked"
      \/ /\ \E v : StoredKeys' = [StoredKeys EXCEPT ![d] = v]
         /\ Progress[d] = "asked" /\ d \in unsaid'
      \/ UNCHANGED StoredKeys
  <2>1. CASE Keys!Mislead(d)  BY <2>1 DEF Keys!Mislead
  <2>2. CASE ~Keys!Mislead(d)
    BY <1>2, <2>2 DEF Keys!Step, Keys!Ask, Keys!Take, Keys!Stored, Keys!NotStored, Keys!Renew
  <2> QED BY <2>1, <2>2
<1>6. c = d  BY <1>4, <1>5
<1>7. Progress[c] = "asked" => put[c].pc # "idle"  BY DEF Progress, Phase
<1>8. Wishes[c] = put[c].value  BY DEF Wishes
<1> QED BY <1>4, <1>5, <1>6, <1>7, <1>8

\* What is stored for a component changes only in a call of its own, to the value
\* that call was given, or to what a failed write makes of its line (KeysAreOwn,
\* minIni.c:657-903), for any components, values and files and whenever the process
\* dies, unless calls overlapped with a copy, one of the three failures came about
\* that cost others their keys (see StoreImplemented), or a crash left the file
\* under its temporary name: so far the modules of the components may model what
\* they store as theirs alone.
THEOREM OwnKeys == IniSpec => KeysAreOwn
<1>1. IniInit => CalmInv  BY IniAssumption, CalmInit DEF CalmInv
<1>2. IniTypeOK /\ CalmInv /\ [IniNext]_iniVars => CalmInv' /\ [OwnChange]_iniVars
  BY IniAssumption, StoreStep, StepOwn
<1> QED BY <1>1, <1>2, TypeCorrect, PTL DEF IniSpec, KeysAreOwn

-----------------------------------------------------------------------------
(* What a component was told                                               *)

\* A key has the value its component asked for, once that was taken, and else
\* the value it was last told is stored, unless it was misled.
Kept(c) ==
  /\ Progress[c] = "taken" => StoredKeys[c] = Wishes[c]
  /\ Progress[c] # "taken" /\ c \notin unsaid => StoredKeys[c] = done[c]

Faithful ==
  /\ ~Adrift
  /\ \A c \in Components : Kept(c)
  /\ ~DiskFails => unsaid = {}

FaithfulInv == ~Lost /\ crashes = 0 => Faithful

\* The store keeps it so, in every step but a crash.
LEMMA StepKept ==
  ASSUME IniTypeOK, Calm, ~Lost, Faithful, NEW c \in Components, KeyStep(c)
  PROVE  ~Adrift' /\ \A d \in Components : Kept(d)'
<1>1. StoredKeys \in [Components -> Stores]
  BY DEF Calm, Whole, StoredKeys, IniTypeOK
<1>2. /\ Progress = [d \in Components |-> Progress[d]]
      /\ Wishes = [d \in Components |-> Wishes[d]]
      /\ done \in [Components -> Stores]
  BY DEF Progress, Wishes, IniTypeOK
<1>3. (\A d \in Components : Kept(d)) /\ Adrift = FALSE  BY DEF Faithful, Adrift
<1>4. Progress[c] \in {"none", "asked", "taken"}  BY DEF Progress, Phase
<1> DEFINE Result == Adrift' = FALSE /\ \A d \in Components : Kept(d)'
<1>5. SUFFICES Result  OBVIOUS
<1>6. CASE UNCHANGED Keys!keyVars  BY <1>3, <1>6 DEF Keys!keyVars, Kept
<1> USE <1>1, <1>2, <1>3
<1>7. ASSUME NEW v \in IniValues \cup {NoKey}, Keys!Ask(c, v) PROVE Result
  BY <1>7 DEF Keys!Ask, Kept
<1>8. CASE Keys!Take(c)  BY <1>8 DEF Keys!Take, Kept
<1>9. CASE Keys!Stored(c)
  <2>1. CASE Progress[c] = "asked"
    BY <1>9, <2>1 DEF Keys!Stored, Keys!Tell, Keys!Answered, Kept
  <2>2. CASE Progress[c] = "taken"
    BY <1>9, <2>2 DEF Keys!Stored, Keys!Tell, Keys!Answered, Kept
  <2> QED BY <1>4, <1>9, <2>1, <2>2 DEF Keys!Stored
<1>10. CASE Keys!NotStored(c)  BY <1>10 DEF Keys!NotStored, Keys!Answered, Kept
<1>11. CASE Keys!Mislead(c)
  BY <1>11 DEF Keys!Mislead, Keys!Tell, Keys!Answered, Kept
<1>12. CASE Keys!Renew(c)  BY <1>12 DEF Keys!Renew
<1> QED BY <1>6, <1>7, <1>8, <1>9, <1>10, <1>11, <1>12 DEF KeyStep, Keys!Step

\* Nobody is misled while nothing fails.
LEMMA NoneMisled ==
  ASSUME IniTypeOK, Calm, ~Adrift, ~DiskFails, unsaid = {}, NEW c \in Components, IniPuts(c)
  PROVE  unsaid' = {}
<1>1. Return(c, 0) \/ Return(c, 1) => unsaid' = {}  BY DEF Return
<1>2. ~SearchFails(c)
  <2> SUFFICES ASSUME put[c].pc = "search" PROVE main # NoFile
    BY DEF SearchFails
  <2>1. \A d \in Components : put[d].pc # "rename"
    BY DEF Calm, Exclusive, Copying
  <2> QED BY <2>1 DEF Adrift
<1>3. ~RenameFails(c)
  BY DEF RenameFails, Calm, Stage, Whole
<1>4. Reopen(c) => UNCHANGED unsaid
  BY DEF Reopen, Calm, Stage
<1>5. CASE SearchSame(c)  BY <1>1, <1>5 DEF SearchSame
<1>6. CASE Search(c) \/ Copy(c) \/ Remove(c)  BY <1>6 DEF Search, Copy, Remove
<1>7. CASE Rewrite(c)  BY <1>1, <1>7 DEF Rewrite
<1>8. CASE Create(c)  BY <1>1, <1>8 DEF Create
<1>9. CASE Fill(c)  BY <1>1, <1>9 DEF Fill
<1>10. CASE OpenTemp(c)  BY <1>1, <1>10 DEF OpenTemp
<1>11. CASE Rename(c)  BY <1>1, <1>11 DEF Rename
<1> QED BY <1>2, <1>3, <1>4, <1>5, <1>6, <1>7, <1>8, <1>9, <1>10, <1>11 DEF IniPuts

\* With nothing lost and no crash, every step of the file is one of a call, or the
\* end of the process at the erasing of a section, with all where it was.
LEMMA FaithfulStep ==
  ASSUME IniAssumption, IniTypeOK, IniTypeOK', CalmInv, FaithfulInv, [IniNext]_iniVars
  PROVE  FaithfulInv'
<1> SUFFICES ASSUME ~Lost', crashes' = 0 PROVE Faithful'
  BY DEF FaithfulInv
<1>1. ~Lost /\ Calm  BY LostStays DEF CalmInv
<1>2. CASE UNCHANGED iniVars
  <2>1. UNCHANGED <<text, main, temp, put, done, unsaid, raced, spoilt, crashes>>
    BY <1>2 DEF iniVars
  <2>2. UNCHANGED <<StoredKeys, Progress, Wishes, Adrift>>
    BY <2>1 DEF StoredKeys, Progress, Wishes, Adrift, Lost
  <2> QED BY <1>1, <2>1, <2>2 DEF FaithfulInv, Faithful, Kept
<1>3. CASE Crash
  BY <1>3 DEF Crash, IniTypeOK, IniAssumption
<1>4. CASE Die
  <2>1. Died /\ UNCHANGED crashes  BY <1>4 DEF Die
  <2>2. Keys!Die  BY <1>1, <2>1, DiedKept
  <2>3. Faithful  BY <1>1, <2>1 DEF FaithfulInv
  <2>4. \A c \in Components : Progress[c] # "taken"
    BY <1>1, <1>4 DEF Die, Calm, Exclusive, Copying, Progress, Phase
  <2>5. /\ Adrift' = (Adrift \/ \E c \in Components : Progress[c] = "taken")
        /\ UNCHANGED <<StoredKeys, done, unsaid>>
        /\ Progress' = [c \in Components |-> "none"]
    BY <2>2 DEF Keys!Die
  <2>6. ~Adrift'  BY <2>3, <2>4, <2>5 DEF Faithful
  <2>7. \A c \in Components : Kept(c)'  BY <2>3, <2>4, <2>5 DEF Faithful, Kept
  <2> QED BY <2>3, <2>5, <2>6, <2>7 DEF Faithful
<1>5. ASSUME NEW c \in Components, IniPuts(c) \/ \E v \in Stores : Put(c, v)
      PROVE  Faithful'
  <2>1. UNCHANGED crashes
    BY <1>5 DEF IniPuts, Put, SearchSame, Search, SearchFails, Rewrite, Create, Fill,
       OpenTemp, Reopen, Copy, Remove, Rename, RenameFails
  <2>2. Faithful  BY <1>1, <2>1 DEF FaithfulInv
  <2>3. KeyStep(c)  BY <1>1, <1>5, CallKept
  <2>4. ~Adrift' /\ \A d \in Components : Kept(d)'  BY <1>1, <2>2, <2>3, StepKept
  <2>5. ASSUME ~DiskFails PROVE unsaid' = {}
    <3>1. unsaid = {} /\ ~Adrift  BY <2>2, <2>5 DEF Faithful
    <3>2. CASE IniPuts(c)  BY <1>1, <2>5, <3>1, <3>2, NoneMisled
    <3>3. CASE \E v \in Stores : Put(c, v)  BY <3>1, <3>3 DEF Put
    <3> QED BY <1>5, <3>2, <3>3
  <2> QED BY <2>4, <2>5 DEF Faithful
<1> QED BY <1>2, <1>3, <1>4, <1>5 DEF IniNext

\* What ini_puts() answers 1 to is in the file between the calls, for any
\* components, values and files (SuccessUndisturbed, minIni.c:679), unless calls
\* overlapped with a copy, the process died, or one of the three failures came
\* about that cost all keys (see StoreImplemented).  Any other failure it ignores
\* leaves only its caller's key in doubt, until that stores again; and while
\* nothing fails nobody's is.
THEOREM SuccessCorrect == IniSpec => []SuccessUndisturbed
<1>1. IniInit => CalmInv /\ FaithfulInv
  <2> SUFFICES ASSUME IniInit PROVE CalmInv /\ FaithfulInv
    OBVIOUS
  <2>1. Calm /\ Keys!Init  BY IniAssumption, CalmInit, StoreInit
  <2>2. Faithful  BY <2>1 DEF Keys!Init, Faithful, Kept
  <2> QED BY <2>1, <2>2 DEF CalmInv, FaithfulInv
<1>2. IniTypeOK /\ CalmInv /\ [IniNext]_iniVars => CalmInv'
  BY IniAssumption, StoreStep
<1>3. IniTypeOK /\ IniTypeOK' /\ CalmInv /\ FaithfulInv /\ [IniNext]_iniVars => FaithfulInv'
  BY IniAssumption, FaithfulStep
<1>4. IniTypeOK /\ CalmInv /\ FaithfulInv => SuccessUndisturbed
  <2> SUFFICES ASSUME IniTypeOK, Calm, Faithful, ~Lost,
                      \A c \in Components : put[c].pc = "idle"
               PROVE  /\ main # NoFile
                      /\ \A c \in Components \ unsaid : text[main][c] = done[c]
                      /\ ~DiskFails => unsaid = {}
    BY DEF CalmInv, FaithfulInv, SuccessUndisturbed
  <2>1. main # NoFile  BY DEF Faithful, Adrift
  <2>2. StoredKeys = text[main]  BY <2>1 DEF StoredKeys
  <2>3. \A c \in Components : Progress[c] = "none"  BY DEF Progress, Phase
  <2>4. \A c \in Components \ unsaid : text[main][c] = done[c]
    BY <2>2, <2>3 DEF Faithful, Kept
  <2> QED BY <2>1, <2>4 DEF Faithful
<1> QED BY <1>1, <1>2, <1>3, <1>4, TypeCorrect, PTL DEF IniSpec

====
