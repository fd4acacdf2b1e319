----------------------------- MODULE ConfigFile -----------------------------
(***************************************************************************)
(* The configuration file under the middleware: CConfig hands every value  *)
(* to ini_puts() of minIni, which copies the file to a temporary one and   *)
(* puts that in its place.  The glue the library is built with             *)
(* (minGlue.h) takes no file locks, and every component of the middleware  *)
(* holds a lock of its own when it stores: two of them can be in           *)
(* ini_puts() at once, on the same temporary file.                         *)
(*                                                                         *)
(* One key per component stands for all it stores.  A file is an inode     *)
(* behind a name; what is written through a FILE reaches its inode when it *)
(* is closed, as the file fits its buffer.  What fwrite(), fclose(),       *)
(* remove() and rename() answer is ignored.                                *)
(***************************************************************************)
EXTENDS FiniteSets, Integers

CONSTANTS
  Components,   (* the components that store values                         *)
  Erasers,      (* those that erase them too: the pan-tilt head its presets *)
  Inodes,       (* the files there may be, open ones and named ones         *)
  IniValues,    (* the values of the keys                                   *)
  Width,        (* the length of the line that holds each value            *)
  NoKey,        (* the value of a key that is not in the file               *)
  NoFile,       (* no inode                                                 *)
  DiskFails,    (* TRUE: any operation on a file there is may fail          *)
  MaxCrashes    (* bound: times the process dies                            *)

ASSUME IniAssumption ==
  /\ Erasers \subseteq Components /\ Inodes # {}
  /\ NoKey \notin IniValues /\ NoFile \notin Inodes
  /\ Width \in [IniValues -> Nat]
  /\ DiskFails \in BOOLEAN /\ MaxCrashes \in Nat

VARIABLES
  text,         (* what is in each inode: a value for each key              *)
  main, temp,   (* the inodes behind the file's two names                   *)
  put,          (* the ini_puts() each component is in                      *)
  done,         (* history: the value last answered 1 to                    *)
  unsaid,       (* history: whose last answer 1 hides a failure             *)
  raced,        (* history: a file was copied during another ini_puts()     *)
  spoilt,       (* history: a failure may have cost other keys as well      *)
  crashes

iniVars == <<text, main, temp, put, done, unsaid, raced, spoilt, crashes>>

Stores == IniValues \cup {NoKey}
Empty == [c \in Components |-> NoKey]
NoPut == [pc |-> "idle", value |-> NoKey, from |-> NoFile, to |-> NoFile]

IniInit ==
  /\ main = CHOOSE i \in Inodes : TRUE
  /\ text \in [Inodes -> {Empty}]
  /\ temp = NoFile
  /\ put = [c \in Components |-> NoPut]
  /\ done = Empty /\ unsaid = {}
  /\ raced = FALSE /\ spoilt = FALSE
  /\ crashes = 0

InUse == {main, temp} \cup {put[c].from : c \in Components}
                      \cup {put[c].to : c \in Components}

\* Steps of ini_puts() that do not leave the lines of the file where they are.
Copying == {"create", "fill", "open", "reopen", "copy", "remove", "rename"}

\* The call of component c goes on: races are noted.
Goto(c, new) ==
  /\ put' = [put EXCEPT ![c] = new]
  /\ raced' = (raced \/ \E d \in Components \ {c} :
                 /\ put[d].pc # "idle" /\ new.pc # "idle"
                 /\ (put[d].pc \in Copying \/ new.pc \in Copying))

\* ini_puts() answers; the callers of SetValue() do not look at it.
Return(c, answer) ==
  /\ Goto(c, NoPut)
  /\ IF answer = 1
     THEN done' = [done EXCEPT ![c] = put[c].value] /\ unsaid' = unsaid \ {c}
     ELSE UNCHANGED <<done, unsaid>>

\* It answers 1 although something it ignores has failed.
ReturnUnsaid(c) ==
  /\ Goto(c, NoPut)
  /\ done' = [done EXCEPT ![c] = put[c].value] /\ unsaid' = unsaid \cup {c}

\* A write that fails may leave anything in the line it was to write.
CutLine(i, c) == \E v \in Stores : text' = [text EXCEPT ![i][c] = v]

-----------------------------------------------------------------------------
(* ini_puts()                                                              *)

Put(c, v) ==
  /\ put[c].pc = "idle"
  /\ v = NoKey => c \in Erasers
  /\ Goto(c, [NoPut EXCEPT !.pc = "search", !.value = v])
  /\ UNCHANGED <<text, main, temp, done, unsaid, spoilt, crashes>>

\* The file is read through once, for the key.  The same value: nothing to do.
\* A line of the same length is written over; anything else needs a copy.
\* Erasing a section (CConfig's DeleteSection()) looks for nothing.
SearchSame(c) ==
  /\ put[c].pc = "search" /\ main # NoFile
  /\ text[main][c] = put[c].value /\ put[c].value # NoKey
  /\ Return(c, 1)
  /\ UNCHANGED <<text, main, temp, spoilt, crashes>>

Search(c) ==
  /\ put[c].pc = "search" /\ main # NoFile
  /\ put[c].value = NoKey \/ text[main][c] # put[c].value
  /\ LET inPlace == /\ put[c].value # NoKey /\ text[main][c] # NoKey
                    /\ Width[put[c].value] = Width[text[main][c]] IN
     Goto(c, [put[c] EXCEPT !.pc = IF inPlace THEN "rewrite" ELSE "open"])
  /\ UNCHANGED <<text, main, temp, done, unsaid, spoilt, crashes>>

\* A file that cannot be opened, be it there or not, is made anew for a value; it
\* is taken to have nothing to erase.
SearchFails(c) ==
  /\ put[c].pc = "search" /\ (main = NoFile \/ DiskFails)
  /\ IF put[c].value = NoKey
     THEN ReturnUnsaid(c)
     ELSE Goto(c, [put[c] EXCEPT !.pc = "create"]) /\ UNCHANGED <<done, unsaid>>
  /\ UNCHANGED <<text, main, temp, spoilt, crashes>>

\* fopen() for reading and writing, and the one line.
Rewrite(c) ==
  /\ put[c].pc = "rewrite"
  /\ \/ /\ main = NoFile \/ DiskFails
        /\ Return(c, 0) /\ UNCHANGED text
     \/ /\ main # NoFile
        /\ Return(c, 1) /\ text' = [text EXCEPT ![main][c] = put[c].value]
     \/ /\ main # NoFile /\ DiskFails
        /\ ReturnUnsaid(c) /\ CutLine(main, c)
  /\ UNCHANGED <<main, temp, spoilt, crashes>>

\* fopen() for writing empties the inode behind a name, or makes a new one:
\* which one makes no difference.
Opened(name) == IF name # NoFile THEN name ELSE CHOOSE i \in Inodes \ InUse : TRUE
Room(name) == name # NoFile \/ Inodes \ InUse # {}

Create(c) ==
  /\ put[c].pc = "create"
  /\ \/ Return(c, 0) /\ UNCHANGED <<text, main, spoilt>>
     \/ /\ Room(main)
        /\ main' = Opened(main)
        /\ text' = [text EXCEPT ![Opened(main)] = Empty]
        /\ Goto(c, [put[c] EXCEPT !.pc = "fill", !.to = Opened(main)])
        /\ spoilt' = (spoilt \/ main # NoFile)
        /\ UNCHANGED <<done, unsaid>>
  /\ UNCHANGED <<temp, crashes>>

Fill(c) ==
  /\ put[c].pc = "fill"
  /\ \/ Return(c, 1) /\ text' = [text EXCEPT ![put[c].to][c] = put[c].value]
     \/ DiskFails /\ ReturnUnsaid(c) /\ CutLine(put[c].to, c)
  /\ UNCHANGED <<main, temp, spoilt, crashes>>

\* Mutant: that there is no temporary file is not an error.
OpenTempAnyway(c) ==
  /\ put[c].pc = "open"
  /\ \/ Return(c, 1) /\ UNCHANGED <<text, temp>>
     \/ /\ Room(temp)
        /\ temp' = Opened(temp)
        /\ text' = [text EXCEPT ![Opened(temp)] = Empty]
        /\ Goto(c, [put[c] EXCEPT !.pc = "reopen", !.to = Opened(temp)])
        /\ UNCHANGED <<done, unsaid>>
  /\ UNCHANGED <<main, spoilt, crashes>>

\* The temporary file, which may not be had.
OpenTemp(c) ==
  /\ put[c].pc = "open"
  /\ \/ Return(c, 0) /\ UNCHANGED <<text, temp>>
     \/ /\ Room(temp)
        /\ temp' = Opened(temp)
        /\ text' = [text EXCEPT ![Opened(temp)] = Empty]
        /\ Goto(c, [put[c] EXCEPT !.pc = "reopen", !.to = Opened(temp)])
        /\ UNCHANGED <<done, unsaid>>
  /\ UNCHANGED <<main, spoilt, crashes>>

\* The file is opened again.  When it cannot be, the key is left in the temporary
\* file, under that file's name; there is no section to erase then, and the
\* library is lost (Die).
Reopen(c) ==
  /\ put[c].pc = "reopen"
  /\ \/ /\ main # NoFile
        /\ Goto(c, [put[c] EXCEPT !.pc = "copy", !.from = main])
        /\ UNCHANGED <<text, done, unsaid>>
     \/ /\ (main = NoFile \/ DiskFails) /\ put[c].value # NoKey
        /\ text' = [text EXCEPT ![put[c].to][c] = put[c].value]
        /\ ReturnUnsaid(c)
  /\ UNCHANGED <<main, temp, spoilt, crashes>>

\* A text written over another one: the end of a longer one stays.
Over(new, old) ==
  {t \in [Components -> Stores] :
     \A c \in Components :
       t[c] = new[c] \/ (new[c] = NoKey /\ t[c] = old[c])}

\* The file with the new value, to the temporary one; both are closed.  What a
\* failed read or write leaves of it may be anything.
Copy(c) ==
  /\ put[c].pc = "copy"
  /\ LET new == [text[put[c].from] EXCEPT ![c] = put[c].value]
         old == text[put[c].to] IN
     \/ /\ \E t \in Over(new, old) : text' = [text EXCEPT ![put[c].to] = t]
        /\ UNCHANGED spoilt
     \/ /\ DiskFails /\ spoilt' = TRUE
        /\ \E t \in [Components -> Stores] : text' = [text EXCEPT ![put[c].to] = t]
  /\ Goto(c, [put[c] EXCEPT !.pc = "remove", !.from = NoFile])
  /\ UNCHANGED <<main, temp, done, unsaid, crashes>>

\* Mutant: the temporary file is not closed.
RemoveUnclosed(c) ==
  /\ put[c].pc = "remove"
  /\ main' = NoFile \/ (DiskFails /\ UNCHANGED main)
  /\ Goto(c, [put[c] EXCEPT !.pc = "rename"])
  /\ UNCHANGED <<text, temp, done, unsaid, spoilt, crashes>>

\* close_rename(): what the two calls answer is ignored.
Remove(c) ==
  /\ put[c].pc = "remove"
  /\ main' = NoFile \/ (DiskFails /\ UNCHANGED main)
  /\ Goto(c, [put[c] EXCEPT !.pc = "rename", !.to = NoFile])
  /\ UNCHANGED <<text, temp, done, unsaid, spoilt, crashes>>

\* rename() takes the place of a file that remove() has left.
Rename(c) ==
  /\ put[c].pc = "rename" /\ temp # NoFile
  /\ main' = temp /\ temp' = NoFile
  /\ Return(c, 1)
  /\ UNCHANGED <<text, spoilt, crashes>>

\* Without the file, all is left under the temporary name.
RenameFails(c) ==
  /\ put[c].pc = "rename" /\ (temp = NoFile \/ DiskFails)
  /\ ReturnUnsaid(c)
  /\ spoilt' = (spoilt \/ main = NoFile)
  /\ UNCHANGED <<text, main, temp, crashes>>

-----------------------------------------------------------------------------
(* The process dies and starts again: what was not closed is not written   *)

Died ==
  /\ put' = [c \in Components |-> NoPut]
  /\ UNCHANGED <<text, main, temp, done, unsaid, raced, spoilt>>

Crash ==
  /\ crashes < MaxCrashes
  /\ crashes' = crashes + 1
  /\ Died

\* Erasing a section without a file to copy.
Die ==
  /\ main = NoFile \/ DiskFails
  /\ \E c \in Components : put[c].pc = "reopen" /\ put[c].value = NoKey
  /\ Died
  /\ UNCHANGED crashes

IniPuts(c) ==
  \/ SearchSame(c) \/ Search(c) \/ SearchFails(c) \/ Rewrite(c)
  \/ Create(c) \/ Fill(c)
  \/ OpenTemp(c) \/ Reopen(c) \/ Copy(c)
  \/ Remove(c) \/ Rename(c) \/ RenameFails(c)

IniNext ==
  \/ \E c \in Components, v \in Stores : Put(c, v)
  \/ \E c \in Components : IniPuts(c)
  \/ Crash \/ Die

IniSpec == IniInit /\ [][IniNext]_iniVars

-----------------------------------------------------------------------------
(* Correctness                                                             *)

\* Every variable has its type, and an ini_puts() writes to a file it opened.
IniTypeOK ==
  /\ text \in [Inodes -> [Components -> Stores]]
  /\ main \in Inodes \cup {NoFile} /\ temp \in Inodes \cup {NoFile}
  /\ put \in [Components ->
       [pc : {"idle", "search", "rewrite"} \cup Copying, value : Stores,
        from : Inodes \cup {NoFile}, to : Inodes \cup {NoFile}]]
  /\ done \in [Components -> Stores]
  /\ unsaid \subseteq Components
  /\ raced \in BOOLEAN /\ spoilt \in BOOLEAN
  /\ crashes \in 0..MaxCrashes
  /\ \A c \in Components :
       /\ put[c].to # NoFile <=> put[c].pc \in {"fill", "reopen", "copy", "remove"}
       /\ put[c].from # NoFile <=> put[c].pc = "copy"

\* The store that counts is the file behind the name, or, between remove() and
\* rename(), the temporary one.  Once calls have overlapped, or a failure has cost
\* other keys, it does not matter.
Lost == raced \/ spoilt
StoredKeys == IF Lost THEN Empty ELSE text[IF main # NoFile THEN main ELSE temp]
Phase(pc, named) ==
  IF pc = "idle" THEN "none" ELSE IF pc = "rename" /\ ~named THEN "taken" ELSE "asked"
Progress == [c \in Components |-> Phase(put[c].pc, main # NoFile)]
Wishes == [c \in Components |-> put[c].value]
Adrift == main = NoFile /\ \A c \in Components : put[c].pc # "rename"

Keys == INSTANCE KeyStore WITH
  Values <- IniValues, Erased <- NoKey, keys <- StoredKeys, asked <- Progress,
  wish <- Wishes, told <- done, misled <- unsaid, adrift <- Adrift, collided <- Lost

\* As long as no two calls of ini_puts() overlapped while one of them copied
\* the file, the file is a store of keys: a value replaces the old one at one
\* moment, in remove(), in rename() or in the writing of its line; a crash at any
\* step loses nothing, unless it was between remove() and rename(): then all is
\* still in the temporary file until the next value, which makes the file anew.
\* The answer 0 is given only for what is not stored.  The answer 1 is given for
\* what is stored, or for what a failure nobody looks at has kept from being
\* stored (`unsaid'): then no other key is touched, but for three failures that
\* may cost them all: a file that is there and cannot be opened, and is emptied;
\* a copy cut short; a rename() that fails after remove() (`spoilt').
ImplementsKeyStore == Keys!Spec

\* What is stored for a component changes in a call of its own, to the value it
\* asked for, or to what a failed write makes of its own line, whoever else
\* copies the file and wherever the process dies; unless calls overlapped with a
\* copy, one of the three failures came about, or a crash had left the file under
\* its temporary name: then the next value makes the file anew.
OwnChange ==
  ~Lost' /\ ~Adrift =>
    \A c \in Components : StoredKeys'[c] # StoredKeys[c] =>
      /\ put[c].pc # "idle"
      /\ StoredKeys'[c] = put[c].value \/ c \in unsaid'

KeysAreOwn == [][OwnChange]_iniVars

\* ini_puts() returns "1 if successful" (minIni.c:679): between the calls, the
\* file has what each component was last told it had stored.
SuccessIsStored ==
  (\A c \in Components : put[c].pc = "idle") =>
     main # NoFile /\ text[main] = done

\* Nothing but an overlap with a copy, a crash, or a failure that ini_puts() does
\* not look at breaks that promise; and of the failures, all but three break it
\* only to the component whose call they were in, until its next successful one.
SuccessUndisturbed ==
  /\ ~Lost /\ crashes = 0
  /\ \A c \in Components : put[c].pc = "idle"
  => /\ main # NoFile
     /\ \A c \in Components \ unsaid : text[main][c] = done[c]
     /\ ~DiskFails => unsaid = {}

=============================================================================
