------------------------------ MODULE WikiPages ------------------------------
(***************************************************************************)
(* golang/go_tutorial/codelab/gowiki/httpHandle3.go: requests to view,     *)
(* edit and save pages, each served by a goroutine of its own, over files  *)
(* that nothing locks.  ioutil.WriteFile opens and truncates a file and    *)
(* then writes it, ioutil.ReadFile opens it and reads up to its end; a     *)
(* body is a sequence of blocks, read and written one at a time.           *)
(***************************************************************************)
EXTENDS Integers, Sequences

CONSTANTS
  Requests,      \* the requests of a run
  Inputs,        \* records of a handler, a title and a body
  ValidTitles,   \* the titles that match titleValidator
  Titles, Blocks,
  Absent,        \* no file
  Nobody

ASSUME InputsAreRequests ==
  Inputs \subseteq [handler : {"view", "edit", "save"}, title : Titles, body : Seq(Blocks)]

VARIABLES
  input,         \* what each request asks
  file,          \* the file of each title
  pc,            \* where the goroutine of each request is
  at,            \* the blocks it has read or written
  page,          \* Page.Body of a view or an edit
  answer,        \* what the client gets
  \* history, which no guard reads
  lone,          \* the save a page is owed to: no other has been in its way
  still          \* the reads that no save has been in the way of

wikiVars == <<input, file, pc, at, page, answer, lone, still>>
history == <<lone, still>>

IsSave(r) == input[r].handler = "save"
Title(r) == input[r].title
Body(r) == input[r].body
Writing(t) == {r \in Requests : pc[r] = "write" /\ Title(r) = t}

WikiInit ==
  /\ input \in [Requests -> Inputs]
  /\ file = [t \in Titles |-> Absent]
  /\ pc = [r \in Requests |-> "asked"]
  /\ at = [r \in Requests |-> 0]
  /\ page = [r \in Requests |-> << >>]
  /\ answer = [r \in Requests |-> "none"]
  /\ lone = [t \in Titles |-> Nobody]
  /\ still = Requests

Answer(r, a) ==
  /\ pc' = [pc EXCEPT ![r] = "answered"]
  /\ answer' = [answer EXCEPT ![r] = a]

\* makeHandler: a title of other characters is not found.
NotFound(r) ==
  /\ pc[r] = "asked" /\ Title(r) \notin ValidTitles
  /\ Answer(r, "404")
  /\ UNCHANGED <<input, file, at, page, history>>

Start(r) == pc[r] = "asked" /\ Title(r) \in ValidTitles

-----------------------------------------------------------------------------
\* A slip: the page is saved over what is in the file, which is not truncated.
SaveOpenKeeping(r) ==
  /\ Start(r) /\ IsSave(r)
  /\ file' = [file EXCEPT ![Title(r)] = IF @ = Absent THEN << >> ELSE @]
  /\ pc' = [pc EXCEPT ![r] = "write"]
  /\ lone' = [lone EXCEPT ![Title(r)] = IF Writing(Title(r)) = {} THEN r ELSE Nobody]
  /\ still' = {q \in still : Title(q) # Title(r)}
  /\ UNCHANGED <<input, at, page, answer>>

SaveOpen(r) ==
  /\ Start(r) /\ IsSave(r)
  /\ file' = [file EXCEPT ![Title(r)] = << >>]
  /\ pc' = [pc EXCEPT ![r] = "write"]
  /\ lone' = [lone EXCEPT ![Title(r)] = IF Writing(Title(r)) = {} THEN r ELSE Nobody]
  /\ still' = {q \in still : Title(q) # Title(r)}
  /\ UNCHANGED <<input, at, page, answer>>

\* Every writer has its own offset in the file, past whose end zeros would show.
Overwritten(body, i, block) ==
  [j \in 1 .. (IF Len(body) < i THEN i ELSE Len(body)) |->
     IF j = i THEN block ELSE IF j <= Len(body) THEN body[j] ELSE Absent]

SaveWrite(r) ==
  /\ pc[r] = "write" /\ at[r] < Len(Body(r))
  /\ at' = [at EXCEPT ![r] = @ + 1]
  /\ file' = [file EXCEPT ![Title(r)] = Overwritten(@, at[r] + 1, Body(r)[at[r] + 1])]
  /\ UNCHANGED <<input, pc, page, answer, history>>

\* saveHandler drops the error of save, of the open or of a write.
SaveAnswer(r) ==
  /\ (Start(r) /\ IsSave(r)) \/ pc[r] = "write"
  /\ Answer(r, "redirect to view")
  /\ UNCHANGED <<input, file, at, page, history>>

-----------------------------------------------------------------------------
\* loadPage.
LoadOpen(r) ==
  /\ Start(r) /\ ~IsSave(r) /\ file[Title(r)] # Absent
  /\ pc' = [pc EXCEPT ![r] = "read"]
  /\ still' = IF Writing(Title(r)) = {} THEN still \union {r} ELSE still \ {r}
  /\ UNCHANGED <<input, file, at, page, answer, lone>>

LoadRead(r) ==
  /\ pc[r] = "read" /\ at[r] < Len(file[Title(r)])
  /\ at' = [at EXCEPT ![r] = @ + 1]
  /\ page' = [page EXCEPT ![r] = Append(@, file[Title(r)][at[r] + 1])]
  /\ UNCHANGED <<input, file, pc, answer, history>>

\* Any error counts as a page that is not there: a view sends the client to the
\* edit form, and the form is empty.
LoadFails(r) ==
  /\ (Start(r) /\ ~IsSave(r)) \/ pc[r] = "read"
  /\ Answer(r, IF input[r].handler = "view" THEN "redirect to edit" ELSE "edit")
  /\ page' = [page EXCEPT ![r] = << >>]
  /\ still' = still \ {r}
  /\ UNCHANGED <<input, file, at, lone>>

\* A slip: the page is shown after one read, whatever that returned.
RenderAfterOneRead(r) ==
  /\ pc[r] = "read" /\ (at[r] = 1 \/ at[r] >= Len(file[Title(r)]))
  /\ Answer(r, input[r].handler)
  /\ UNCHANGED <<input, file, at, page, history>>

\* A read at the end of the file returns nothing, and the page is shown.
Render(r) ==
  /\ pc[r] = "read" /\ at[r] >= Len(file[Title(r)])
  /\ Answer(r, input[r].handler)
  /\ UNCHANGED <<input, file, at, page, history>>

-----------------------------------------------------------------------------
Serve(r) ==
  \/ NotFound(r)
  \/ SaveOpen(r) \/ SaveWrite(r) \/ SaveAnswer(r)
  \/ LoadOpen(r) \/ LoadRead(r) \/ LoadFails(r) \/ Render(r)

WikiNext == \E r \in Requests : Serve(r)

WikiSpec == WikiInit /\ [][WikiNext]_wikiVars

-----------------------------------------------------------------------------
WikiTypeOK ==
  /\ input \in [Requests -> Inputs]
  /\ file \in [Titles -> {Absent} \union Seq(Blocks \union {Absent})]
  /\ pc \in [Requests -> {"asked", "read", "write", "answered"}]
  /\ answer \in [Requests -> {"none", "404", "view", "edit", "redirect to view", "redirect to edit"}]
  /\ at \in [Requests -> Nat] /\ page \in [Requests -> Seq(Blocks \union {Absent})]
  /\ lone \in [Titles -> Requests \union {Nobody}] /\ still \subseteq Requests

(* A page holds what its latest save has written of its body, and nothing  *)
(* of an earlier, longer one, if that save began while no other was under  *)
(* way; a save that fails leaves a prefix of its body, though the client   *)
(* is told nothing (line 91).                                              *)
LoneSaveIsKept ==
  \A t \in Titles :
    LET r == lone[t]
    IN  r # Nobody => /\ file[t] = SubSeq(Body(r), 1, at[r])
                      /\ pc[r] \in {"write", "answered"}

(* A view or an edit shows the whole file as it is, if no save of the page *)
(* was under way while it read; and whatever is in its way, a block is     *)
(* shown in the place it has in the body of some save (line 20).           *)
Shown(r) == pc[r] = "read" /\ pc'[r] = "answered" /\ answer'[r] # "redirect to edit"
InPlace(r) ==
  \A i \in DOMAIN page[r] :
    \E s \in Requests : /\ IsSave(s) /\ Title(s) = Title(r)
                        /\ i \in DOMAIN Body(s) /\ page[r][i] \in {Body(s)[i], Absent}

PagesAreShownWhole ==
  [][\A r \in Requests :
       Shown(r) => InPlace(r)' /\ (r \in still' => page'[r] = file[Title(r)])]_wikiVars
=============================================================================
