---------------------------- MODULE FormTargets ----------------------------
(***************************************************************************)
(* The form-action-insecure check: one walk over the tags of an https page *)
(* collects where its forms send what is typed, and a target on http is    *)
(* reported, critical if the form has a field for a secret                 *)
(* (checks/html/form_action_insecure.lua,                                  *)
(* lua_engine/checks/html/form_action_insecure*.go).  The walk is compared *)
(* with the submissions a browser would make of the same page.             *)
(*                                                                         *)
(* A tag is [tag, end, ref, method, type, name, owner]: ref is the href of *)
(* a base, the action of a form or the formaction of a control, name an    *)
(* element of SecretNames for a field that takes one, owner whether the    *)
(* control names the first form of the page as its own (form=).  A         *)
(* reference is [kind, scheme, host], its kind one of "absent", "empty",   *)
(* "script" (and mailto, tel, data), "fragment", "path", "net" (//host)    *)
(* and "full".                                                             *)
(***************************************************************************)
EXTENDS Naturals, Sequences, SequencesExt

CONSTANTS
    FormDocuments,      \* what the page may be: [https, html, tags]
    SecretNames         \* the names that sensitiveFieldNamePatterns matches

VARIABLES
    formPage,           \* the page
    formRun,            \* "begun", "over" or "lost"
    insecure            \* the findings, in order: [target, critical, method, override]

formVars == <<formPage, formRun, insecure>>

ThePage == [scheme |-> IF formPage.https THEN "https" ELSE "http", host |-> "page", at |-> "page"]

\* Reference resolution (net/url and, but for what is no reference, a browser).
Resolved(ref, base) ==
    CASE ref.kind \in {"absent", "empty", "fragment"} -> base
      [] ref.kind = "path" -> [base EXCEPT !.at = "path"]
      [] ref.kind = "net"  -> [base EXCEPT !.host = ref.host, !.at = "root"]
      [] OTHER             -> [scheme |-> ref.scheme, host |-> ref.host, at |-> "root"]
-----------------------------------------------------------------------------
(* parseFormActions                                                        *)

IsSensitiveField(tag) == tag.type = "password" \/ tag.name \in SecretNames

\* resolveAction: what is no network action, and a bare fragment, is none.
IsAction(ref) == ref.kind \notin {"absent", "empty", "script", "fragment"}

Candidate(w, tag, override) ==
    [target |-> Resolved(tag.ref, w.base), method |-> IF tag.method = "POST" THEN "POST" ELSE "GET",
     override |-> override, form |-> w.inForm]
AddCandidate(w, tag, override) ==
    IF IsAction(tag.ref) THEN [w EXCEPT !.candidates = Append(@, Candidate(w, tag, override))] ELSE w

\* <base>: against the page, for what follows it.
PageBase(w, tag) == w
ReadBase(w, tag) == IF tag.ref.kind \in {"absent", "empty"} THEN w ELSE [w EXCEPT !.base = Resolved(tag.ref, ThePage)]

\* <form>: also inside another.
ReadFormStart(w, tag) ==
    AddCandidate([w EXCEPT !.forms = Append(@, FALSE), !.inForm = Len(w.forms) + 1], tag, FALSE)
StaysOpen(w) == w
EndForm(w) == [w EXCEPT !.inForm = 0]

AddField(w, tag) ==
    IF tag.name # "" /\ IsSensitiveField(tag) THEN [w EXCEPT !.forms[w.inForm] = TRUE] ELSE w

\* The controls whose formaction counts.
AnyControl(tag) == TRUE
Overrides(tag) ==
    \/ tag.tag = "input" /\ tag.type \in {"submit", "image"}
    \/ tag.tag = "button" /\ tag.type \in {"", "submit"}

ReadTag(w, tag) ==
    CASE tag.tag = "form" /\ tag.end -> EndForm(w)
      [] tag.end                     -> w
      [] tag.tag = "base"            -> ReadBase(w, tag)
      [] tag.tag = "form"            -> ReadFormStart(w, tag)
      [] w.inForm = 0                -> w
      [] tag.tag = "button"          -> IF Overrides(tag) THEN AddCandidate(w, tag, TRUE) ELSE w
      [] OTHER -> IF Overrides(tag) THEN AddCandidate(AddField(w, tag), tag, TRUE) ELSE AddField(w, tag)

\* ScanFormActions: a candidate carries the fields of its form, those that follow it too.
ScanFormActions(tags) ==
    LET w == FoldLeft(ReadTag, [base |-> ThePage, inForm |-> 0, forms |-> <<>>, candidates |-> <<>>], tags)
    IN  [i \in DOMAIN w.candidates |->
            LET c == w.candidates[i]
            IN  [target |-> c.target, critical |-> w.forms[c.form], method |-> c.method, override |-> c.override]]

\* check.run: one finding for a target, the first.
OnePerTarget(candidates) ==
    FoldLeft(LAMBDA out, c : IF \E i \in DOMAIN out : out[i].target = c.target THEN out ELSE Append(out, c),
             <<>>, SelectSeq(candidates, LAMBDA c : c.target.scheme = "http"))
-----------------------------------------------------------------------------
FormInit ==
    /\ formPage \in FormDocuments
    /\ formRun = "begun" /\ insecure = <<>>

AuditForms ==
    /\ formRun = "begun" /\ formRun' = "over"
    /\ insecure' = IF formPage.https /\ formPage.html THEN OnePerTarget(ScanFormActions(formPage.tags)) ELSE <<>>
    /\ UNCHANGED formPage

\* The page does not come.
LoseForms == formRun = "begun" /\ formRun' = "lost" /\ UNCHANGED <<formPage, insecure>>

FormNext == AuditForms \/ LoseForms
-----------------------------------------------------------------------------
(* A browser                                                               *)

Tags == formPage.tags
Places == DOMAIN Tags

\* The first base that has a reference counts, for the whole page.
BaseTags == { i \in Places : Tags[i].tag = "base" /\ ~Tags[i].end /\ Tags[i].ref.kind \notin {"absent", "empty"} }
DocumentBase ==
    IF BaseTags = {} THEN ThePage ELSE Resolved(Tags[CHOOSE i \in BaseTags : \A j \in BaseTags : i <= j].ref, ThePage)

\* A form that opens inside another is none.
Closes(i) == Tags[i].tag = "form" /\ Tags[i].end
OpenBefore[i \in Nat] ==
    IF i <= 1 THEN 0
    ELSE IF Closes(i - 1) THEN 0
    ELSE IF Tags[i - 1].tag = "form" /\ OpenBefore[i - 1] = 0 THEN i - 1 ELSE OpenBefore[i - 1]
RealForms == { i \in Places : Tags[i].tag = "form" /\ ~Tags[i].end /\ OpenBefore[i] = 0 }
OwnControls(form) ==
    { i \in Places : Tags[i].tag \notin {"form", "base"} /\ ~Tags[i].end
                     /\ IF Tags[i].owner THEN \A g \in RealForms : form <= g ELSE OpenBefore[i] = form }

\* A button submits unless it says that it does something else.
Submits(tag) ==
    \/ tag.tag = "button" /\ tag.type \notin {"button", "reset"}
    \/ tag.tag = "input" /\ tag.type \in {"submit", "image"}

\* Where the form goes from the return key or a plain button, and from a button with a
\* target of its own; an empty target is the page, and one that runs a script goes nowhere.
Sends(form, via) ==
    LET tag == Tags[via] IN
    [target |-> IF tag.ref.kind \in {"absent", "empty"} THEN ThePage ELSE Resolved(tag.ref, DocumentBase),
     critical |-> \E i \in OwnControls(form) : Tags[i].name # "" /\ IsSensitiveField(Tags[i]),
     method |-> IF "POST" \in {tag.method, IF tag.method = "" THEN Tags[form].method ELSE ""} THEN "POST" ELSE "GET"]
Submissions ==
    UNION { { Sends(form, via) : via \in { i \in {form} \cup { i \in OwnControls(form) : Submits(Tags[i]) } :
                                             Tags[i].ref.kind # "script" /\ (i = form \/ Tags[i].ref.kind # "absent") } } :
            form \in RealForms }

\* A page without what the walk reads in another way: forms in forms, controls of a form
\* that is elsewhere, a second base or one behind a form, a fragment for an action, a button
\* of an unknown type.
Tidy ==
    /\ \A i \in Places : Tags[i].tag = "form" /\ ~Tags[i].end => i \in RealForms
    /\ \A i \in Places : ~Tags[i].owner /\ Tags[i].ref.kind # "fragment"
                          /\ (Tags[i].tag = "button" => Tags[i].type \in {"", "submit", "button", "reset"})
    /\ \A i \in BaseTags, j \in Places : j < i => Tags[j].tag # "form" /\ j \notin BaseTags
-----------------------------------------------------------------------------
\* What is reported of a tidy page is a target that a browser sends a form to, critical
\* only if a form that goes there has a field for a secret, and by the method it says: but
\* for a button that names none, which is said to use GET and uses that of its form.
FormsEarned ==
    Tidy => \A i \in DOMAIN insecure :
                LET goes == { s \in Submissions : s.target = insecure[i].target } IN
                /\ ThePage.scheme = "https" /\ insecure[i].target.scheme = "http" /\ goes # {}
                /\ insecure[i].critical => \E s \in goes : s.critical
                /\ insecure[i].override \/ \E s \in goes : s.method = insecure[i].method

\* Each submission of a tidy page that leaves https is reported once, as critical where
\* each form that goes there has a field for a secret: the first form of a target speaks
\* for all.
FormsFound ==
    formRun = "over" /\ formPage.https /\ formPage.html /\ Tidy =>
        \A s \in Submissions :
            s.target.scheme = "http" =>
                LET told == SelectSeq(insecure, LAMBDA f : f.target = s.target) IN
                /\ Len(told) = 1
                /\ (\A t \in Submissions : t.target = s.target => t.critical) => told[1].critical
=============================================================================
