------------------------------- MODULE Prompts -------------------------------
(***************************************************************************)
(* The prompts a question is asked with (prompts/prompt.service.ts): rows  *)
(* of three scopes and of variants, the requests that put or reset one,    *)
(* and the questions that combine them.                                    *)
(*                                                                         *)
(* An edit looks its row up and saves or removes it later; save() looks by *)
(* id once more and updates or inserts.  What an edit writes is the edit's *)
(* name.  chat.user has one scope, the document, and is read the same way. *)
(* Which of the scopes the settings include is applied to what was read.   *)
(***************************************************************************)
EXTENDS Naturals, FiniteSets

CONSTANTS
    Edits,     \* BOUND on the requests that put or reset a prompt
    Readings,  \* BOUND on the questions asked
    Places,    \* BOUND on the scopes and variants that are edited
    Modes      \* the variants a question may be asked with: LEGAL_REVIEW_MODE

Scopes   == {"global", "workspace", "document"}
Variants == {"default", "legal"}

ASSUME PromptsAssumption ==
    /\ Places \subseteq [scope : Scopes, variant : Variants] /\ Places # {}
    /\ Modes \subseteq Variants
    /\ Edits \cap Readings = {}
    /\ "none" \notin Edits

VARIABLES
    promptRows,   \* the rows of each place: an id and a content
    promptOwner,  \* the document still exists
    edits,        \* what each edit is, where it stands and the id it found
    readings,     \* what each question has read of each scope
    seen          \* HISTORY: the edits that were acknowledged when another began

promptVars == <<promptRows, promptOwner, edits, readings, seen>>

Begun(e) == edits[e].pc # "idle"
Acked    == {e \in Edits : edits[e].pc = "done"}
Ids(p)   == {row.id : row \in promptRows[p]}

\* Either of what findOne may return: it has no order.
Found(p) == IF promptRows[p] = {} THEN {"none"} ELSE Ids(p)

-----------------------------------------------------------------------------
(* upsertPrompt, resetPrompt and their like *)

\* The variant of a put is the request's, except for the global prompt; a reset is
\* of the default one.
BeginEdit(e, kind, p) ==
    /\ ~Begun(e) /\ (kind = "reset" \/ p.scope = "global" => p.variant = "default")
    /\ p.scope = "document" => promptOwner
    /\ \E id \in Found(p) :
          edits' = [edits EXCEPT ![e] =
              [pc    |-> IF kind = "put" THEN "save" ELSE IF id = "none" THEN "done" ELSE "remove",
               kind  |-> kind,
               place |-> p,
               id    |-> id]]
    /\ seen' = [seen EXCEPT ![e] = Acked]
    /\ UNCHANGED <<promptRows, promptOwner, readings>>

MoveEdit(e, pc) == edits' = [edits EXCEPT ![e].pc = pc]

\* save() of an entity with an id looks for its row first.
SelectRow(e) ==
    /\ edits[e].pc = "save"
    /\ MoveEdit(e, IF edits[e].id \in Ids(edits[e].place) THEN "update" ELSE "insert")
    /\ UNCHANGED <<promptRows, promptOwner, readings, seen>>

\* An UPDATE of a row that is gone changes nothing, and throws nothing.
UpdateRow(e) ==
    LET p == edits[e].place
    IN /\ edits[e].pc = "update"
       /\ promptRows' = [promptRows EXCEPT ![p] =
              {IF row.id = edits[e].id THEN [row EXCEPT !.content = e] ELSE row : row \in @}]
       /\ MoveEdit(e, "done")
       /\ UNCHANGED <<promptOwner, readings, seen>>

\* Mutant: the unique index leaves a scope out.
MutantInsertable(p) == p.scope = "document" => promptOwner

\* The unique index of the place, and the foreign key to the document.
Insertable(p) == promptRows[p] = {} /\ (p.scope = "document" => promptOwner)

InsertRow(e) ==
    LET p  == edits[e].place
        id == IF edits[e].id = "none" THEN e ELSE edits[e].id
    IN /\ edits[e].pc = "insert"
       /\ IF Insertable(p)
          THEN /\ promptRows' = [promptRows EXCEPT ![p] = @ \cup {[id |-> id, content |-> e]}]
               /\ MoveEdit(e, "done")
          ELSE MoveEdit(e, "failed") /\ UNCHANGED promptRows
       /\ UNCHANGED <<promptOwner, readings, seen>>

RemovePrompt(e) ==
    LET p == edits[e].place
    IN /\ edits[e].pc = "remove"
       /\ promptRows' = [promptRows EXCEPT ![p] = {row \in @ : row.id # edits[e].id}]
       /\ MoveEdit(e, "done")
       /\ UNCHANGED <<promptOwner, readings, seen>>

\* The foreign key cascades.
DeletePromptOwner ==
    /\ promptOwner /\ promptOwner' = FALSE
    /\ promptRows' = [p \in Places |-> IF p.scope = "document" THEN {} ELSE promptRows[p]]
    /\ UNCHANGED <<edits, readings, seen>>

-----------------------------------------------------------------------------
(* getChatPrompts *)

BeginReading(r, variant) ==
    /\ readings[r].pc = "idle"
    /\ readings' = [readings EXCEPT ![r] =
           [pc |-> "reading", variant |-> variant,
            left |-> {p \in Places : p.variant = variant},
            read |-> [p \in Places |-> "none"]]]
    /\ seen' = [seen EXCEPT ![r] = Acked]
    /\ UNCHANGED <<promptRows, promptOwner, edits>>

\* The scopes are read at once, each in a query of its own.
ReadPrompt(r, p) ==
    /\ readings[r].pc = "reading" /\ p \in readings[r].left
    /\ \E content \in IF promptRows[p] = {} THEN {"none"} ELSE {row.content : row \in promptRows[p]} :
          readings' = [readings EXCEPT ![r].left = @ \ {p}, ![r].read[p] = content,
                                       ![r].pc = IF readings[r].left = {p} THEN "combined" ELSE @]
    /\ UNCHANGED <<promptRows, promptOwner, edits, seen>>

-----------------------------------------------------------------------------
PromptsInit ==
    /\ promptRows = [p \in Places |-> {}] /\ promptOwner = TRUE
    /\ edits = [e \in Edits |-> [pc |-> "idle", kind |-> "put", place |-> CHOOSE p \in Places : TRUE,
                                 id |-> "none"]]
    /\ readings = [r \in Readings |-> [pc |-> "idle", variant |-> "default",
                                       left |-> {}, read |-> [p \in Places |-> "none"]]]
    /\ seen = [x \in Edits \cup Readings |-> {}]

EditStep(e) == SelectRow(e) \/ UpdateRow(e) \/ InsertRow(e) \/ RemovePrompt(e)

PromptsNext ==
    \/ \E e \in Edits :
          EditStep(e) \/ \E kind \in {"put", "reset"}, p \in Places : BeginEdit(e, kind, p)
    \/ \E r \in Readings :
          \/ \E variant \in Modes : BeginReading(r, variant)
          \/ \E p \in Places : ReadPrompt(r, p)
    \/ DeletePromptOwner

PromptsSpec == PromptsInit /\ [][PromptsNext]_promptVars

-----------------------------------------------------------------------------
(* Properties. *)

PromptsTypeOK ==
    /\ \A p \in Places : \A row \in promptRows[p] : row.id \in Edits /\ row.content \in Edits
    /\ \A e \in Edits :
          /\ edits[e].pc \in {"idle", "save", "update", "insert", "remove", "done", "failed"}
          /\ edits[e].id \in Edits \cup {"none"}
    /\ \A r \in Readings : readings[r].pc \in {"idle", "reading", "combined"}
    /\ \A x \in DOMAIN seen : seen[x] \subseteq Edits

\* An edit of p that may come after the edit e in every order the callers can
\* tell: it had begun, and was not over when e began.
NotBefore(e, p) == {f \in Edits : Begun(f) /\ edits[f].place = p /\ f \notin seen[e]}

\* Edits of one prompt, by whom and however they overlap, are as good as done
\* one at a time: a question finds what was written last, or what was being
\* written when the last one that was over began, and finds nothing only where
\* nothing was put, or a reset may have come after.
LastEditCounts ==
    \A r \in Readings, p \in Places :
        readings[r].pc = "combined" /\ p.variant = readings[r].variant =>
            LET w    == readings[r].read[p]
                over == {e \in seen[r] : edits[e].place = p}
            IN IF w = "none"
               THEN \/ p.scope = "document" /\ ~promptOwner
                    \/ \A e \in over : edits[e].kind = "put" =>
                          \E f \in NotBefore(e, p) : edits[f].kind = "reset"
               ELSE /\ edits[w].pc # "failed"
                    /\ \A e \in over : w \notin seen[e]
=============================================================================
