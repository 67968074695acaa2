-------------------------------- MODULE Forms -------------------------------
(***************************************************************************)
(* pkg/form: one Form, its value, errors and submits.  The operations are   *)
(* actions on these variables; a submit is two lock sections with the       *)
(* caller's function in between.                                            *)
(***************************************************************************)
EXTENDS Integers, FiniteSets

CONSTANTS
  Field, Value,
  Zero,          \* the value a field starts with
  Bad,           \* values a validator rejects
  Pointers,      \* fields of a pointer type
  OnSubmitOnly,  \* the form's mode is that one
  Sub,           \* bound: submits at a time
  None

ASSUME FormsAssumption ==
  /\ Zero \in Value
  /\ None \notin [Field -> Value]

VARIABLES
  value, submitting,
  touched,       \* some field has been set
  errors,     \* [Field -> "" | "invalid" | "refused"]: by a validator or a server
  sub,        \* submits whose function has not returned: what was submitted
  \* history
  mixed,      \* a Reset, or another submit, came while a submit ran
  edited,     \* submits during which the form was changed
  torn,       \* a text that did not convert changed a field nevertheless
  judged      \* the value a server refused; None if it was edited meanwhile

history == <<mixed, edited, torn, judged>>
form == <<value, touched, submitting, errors, sub, history>>

Blank == [f \in Field |-> Zero]
NoErrors == [f \in Field |-> ""]

Invalid(v) == [f \in Field |-> IF v[f] \in Bad THEN "invalid" ELSE ""]

Refused == \E f \in Field : errors[f] = "refused"
Running == {k \in Sub : sub[k] # None}

FormInit ==
  /\ value = Blank /\ touched = FALSE /\ submitting = FALSE /\ errors = NoErrors
  /\ sub = [k \in Sub |-> None]
  /\ mixed = FALSE /\ edited = {} /\ torn = FALSE /\ judged = None

\* UseForm: a page that is rendered makes its form anew; submits of the one it
\* had end on that one.
UseForm ==
  /\ value' = Blank /\ touched' = FALSE /\ submitting' = FALSE /\ errors' = NoErrors
  /\ sub' = [k \in Sub |-> None]
  /\ mixed' = FALSE /\ edited' = {} /\ torn' = FALSE /\ judged' = None

\* Wrong: the modes are swapped (ErrorsFit).
ValidatesWrongMode == OnSubmitOnly

ValidatesOnChange == ~OnSubmitOnly

Set(f, x) ==
  /\ value' = [value EXCEPT ![f] = x]
  /\ touched' = TRUE
  /\ errors' = IF ValidatesOnChange THEN Invalid(value') ELSE errors
  /\ edited' = edited \cup Running /\ torn' = FALSE
  /\ UNCHANGED <<submitting, sub, mixed, judged>>

\* A text that does not convert: Set returns, but a pointer field already
\* points to a new zero value.
SetInvalid(f) ==
  /\ f \in Pointers
  /\ value' = [value EXCEPT ![f] = Zero]
  /\ edited' = edited \cup Running /\ torn' = TRUE /\ judged' = None
  /\ UNCHANGED <<touched, errors, submitting, sub, mixed>>

Reset ==
  /\ value' = Blank /\ touched' = FALSE /\ submitting' = FALSE /\ errors' = NoErrors
  /\ mixed' = (mixed \/ Running # {}) /\ edited' = edited \cup Running
  /\ torn' = FALSE /\ judged' = None
  /\ UNCHANGED sub

\* Submit up to onSubmit.  Nothing keeps a second one out.
Submit(k) ==
  /\ sub[k] = None
  /\ errors' = Invalid(value)
  /\ IF errors' = NoErrors
     THEN /\ submitting' = TRUE
          /\ sub' = [sub EXCEPT ![k] = value]
          /\ mixed' = (mixed \/ Running # {})
     ELSE UNCHANGED <<submitting, sub, mixed>>
  /\ torn' = FALSE /\ judged' = None
  /\ UNCHANGED <<value, touched, edited>>

\* Wrong: a refused submit stays submitting (SubmittingExact).
AfterErrorBusy(bad) == bad # {} /\ submitting

\* onSubmit has returned, refusing the fields in bad.
AfterSubmit(bad) == FALSE

Finish(k, bad) ==
  /\ submitting' = AfterSubmit(bad)
  /\ errors' = [f \in Field |-> IF f \in bad THEN "refused" ELSE errors[f]]
  /\ sub' = [sub EXCEPT ![k] = None]
  /\ mixed' = (mixed /\ Running # {k})
  /\ judged' = IF bad = {} THEN judged
               ELSE IF k \in edited \/ (Refused /\ judged = None) THEN None ELSE sub[k]
  /\ edited' = edited \ {k}
  /\ UNCHANGED <<value, touched, torn>>

(* IsSubmitting says whether a submit's function is running, until submits   *)
(* overlap or Reset is called during one.                                    *)
SubmittingExact == ~mixed => (submitting <=> Running # {})

(* What a form shows is about the value it holds, through every order of     *)
(* edits, resets, submits and answers (Set, validateLocked, mergeErrorLocked):*)
(* once any field has been set, no error means that the validators accept the *)
(* value, but for a pointer field that a text left half converted; and what a *)
(* server refused is what the form holds, unless it was edited while the      *)
(* server was asked: any later edit takes the server's errors away.           *)
ErrorsFit ==
  /\ touched /\ errors = NoErrors /\ ~torn => Invalid(value) = NoErrors
  /\ Refused /\ judged # None => value = judged

=============================================================================
