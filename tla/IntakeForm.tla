----------------------------- MODULE IntakeForm -----------------------------
(***************************************************************************)
(* The intake form of app/dashboard/new with its debounced ENS lookup, the *)
(* route that answers the lookup, and what POST /api/service-requests      *)
(* makes of the submission.  The filer edits the recipient field at any    *)
(* time; lookups and submissions are answered in any order, late or never. *)
(*                                                                         *)
(* React runs the cleanup of the field's effect before the next event, so  *)
(* an edit and the abort of the lookup under way are one step.             *)
(***************************************************************************)
EXTENDS Integers, FiniteSets

CONSTANTS
    Inputs,     \* what the filer may type into the recipient field
    Names,      \* the inputs that are ENS names
    Dotted,     \* inputs that are names to the form alone (dotted numbers)
    Wallets,    \* EVM addresses and Solana accounts on the curve
    Registry,   \* per name, the address it is registered to, or NoAddress
    NoAddress,
    Posts,      \* submissions
    NoPost,
    MaxEdits,   \* bound on edits of the field
    MaxLost     \* bound on answers of submissions lost on the way

\* Any other input is no recipient at all.
ASSUME FormAssumption ==
    /\ Names \cup Dotted \subseteq Inputs
    /\ Names \cap Dotted = {} /\ (Names \cup Dotted) \cap Wallets = {}
    /\ NoAddress \notin Inputs \cup Wallets /\ NoPost \notin Posts
    /\ Registry \in [Names -> Wallets \cup {NoAddress}]
    /\ MaxEdits \in Nat /\ MaxLost \in Nat

VARIABLES
    input,      \* recipientWallet; NoAddress while the field is empty
    timer,      \* whether the 500 ms timer is running
    lookup,     \* the name being looked up, or NoAddress
    resolved,   \* resolvedAddress
    resolving,  \* ensResolving
    waiting,    \* the submission whose answer the form waits for (`submitting`)
    left,       \* whether router.push has left the form
    at,         \* per submission, where its handler stands
    sent,       \* per submission, the input and resolvedAddress it was sent with
    row,        \* per submission, the name and wallet of the row it created
    edits, lost

fieldVars == <<input, timer, lookup, resolved, resolving, edits>>
postVars == <<waiting, left, at, sent, row, lost>>
formVars == <<fieldVars, postVars>>

Addresses == Wallets \cup {NoAddress}
NoRow == [name |-> NoAddress, wallet |-> NoAddress]

FormTypeOK ==
    /\ input \in Inputs \cup {NoAddress}
    /\ timer \in BOOLEAN /\ resolving \in BOOLEAN /\ left \in BOOLEAN
    /\ lookup \in Inputs \cup {NoAddress}
    /\ resolved \in Addresses
    /\ waiting \in Posts \cup {NoPost}
    /\ at \in [Posts -> {"idle", "sent", "accepted", "staged", "unresolved", "refused"}]
    /\ sent \in [Posts -> [input : Inputs \cup {NoAddress}, hint : Addresses]]
    /\ row \in [Posts -> [name : Inputs \cup {NoAddress}, wallet : Inputs \cup Addresses]]
    /\ edits \in 0..MaxEdits /\ lost \in 0..MaxLost

FormInit ==
    /\ input = NoAddress /\ timer = FALSE /\ lookup = NoAddress
    /\ resolved = NoAddress /\ resolving = FALSE
    /\ waiting = NoPost /\ left = FALSE
    /\ at = [p \in Posts |-> "idle"]
    /\ sent = [p \in Posts |-> [input |-> NoAddress, hint |-> NoAddress]]
    /\ row = [p \in Posts |-> NoRow]
    /\ edits = 0 /\ lost = 0

-----------------------------------------------------------------------------
(* The recipient field.                                                    *)

\* Three characters, among them a dot.
looksLikeENSName(v) == v \in Names \cup Dotted

\* Mutant of EditField: the early return only drops the address.
EditFieldKeepingSpinner(v) ==
    /\ edits < MaxEdits /\ edits' = edits + 1
    /\ ~left /\ v # input
    /\ input' = v /\ timer' = looksLikeENSName(v) /\ lookup' = NoAddress
    /\ resolved' = IF looksLikeENSName(v) THEN resolved ELSE NoAddress
    /\ UNCHANGED <<resolving, postVars>>

\* An edit: the cleanup stops the timer and aborts the lookup; an input that is
\* no name clears the feedback, a name starts the timer and leaves it as it is.
EditField(v) ==
    /\ edits < MaxEdits /\ edits' = edits + 1
    /\ ~left /\ v # input
    /\ input' = v /\ timer' = looksLikeENSName(v) /\ lookup' = NoAddress
    /\ resolved' = IF looksLikeENSName(v) THEN resolved ELSE NoAddress
    /\ resolving' = (looksLikeENSName(v) /\ resolving)
    /\ UNCHANGED postVars

\* The timer fires: the lookup starts.
StartLookup ==
    /\ timer /\ ~left
    /\ timer' = FALSE /\ lookup' = input
    /\ resolved' = NoAddress /\ resolving' = TRUE
    /\ UNCHANGED <<input, edits, postVars>>

\* The query parameter the form sends the name in, and the ones the route reads:
\* they do not meet, although tests/integration/ens-resolve.test.ts:20 expects
\* an answer to the former.
SentIn == "input"

ReadFrom == {"name", "q"}

\* GET /api/ens/resolve: 400 without a name it can read, else what the name
\* service says when it works.
ResolveRoute(v, up) ==
    IF SentIn \in ReadFrom /\ v \in Names /\ up THEN Registry[v] ELSE NoAddress

\* The answer, or a network error, reaches the form.
AnswerLookup(up) ==
    /\ lookup # NoAddress /\ ~left
    /\ resolved' = ResolveRoute(lookup, up)
    /\ resolving' = FALSE /\ lookup' = NoAddress
    /\ UNCHANGED <<input, timer, edits, postVars>>

-----------------------------------------------------------------------------
(* The submission.                                                         *)

\* Mutant of Submit: the button stays enabled.
SubmitAgain(p) ==
    /\ ~left /\ input # NoAddress
    /\ at[p] = "idle"
    /\ at' = [at EXCEPT ![p] = "sent"]
    /\ sent' = [sent EXCEPT ![p] = [input |-> input, hint |-> resolved]]
    /\ waiting' = p
    /\ UNCHANGED <<left, row, lost, fieldVars>>

\* onSubmit, of a form that is attested and otherwise complete; the button is
\* disabled while an answer is awaited.
Submit(p) ==
    /\ waiting = NoPost /\ ~left /\ input # NoAddress
    /\ at[p] = "idle"
    /\ at' = [at EXCEPT ![p] = "sent"]
    /\ sent' = [sent EXCEPT ![p] = [input |-> input, hint |-> resolved]]
    /\ waiting' = p
    /\ UNCHANGED <<left, row, lost, fieldVars>>

\* The handler's ENS resolution, from the server's own lookup `found`.
Recipient(s, found) ==
    IF s.input \notin Names THEN s.input
    ELSE IF found # NoAddress THEN found
    ELSE s.hint

\* The handler's checks before the first write: a name must resolve, here or in
\* the form; any other recipient must be an EVM address or on the curve.
Decide(p, up) ==
    /\ at[p] = "sent"
    /\ LET found == IF up /\ sent[p].input \in Names THEN Registry[sent[p].input] ELSE NoAddress
           wallet == Recipient(sent[p], found)
       IN  IF wallet \in Wallets
           THEN /\ at' = [at EXCEPT ![p] = "accepted"]
                /\ row' = [row EXCEPT ![p] =
                      [name |-> IF sent[p].input \in Names THEN sent[p].input ELSE NoAddress,
                       wallet |-> wallet]]
           ELSE /\ at' = [at EXCEPT ![p] = IF sent[p].input \in Names THEN "unresolved" ELSE "refused"]
                /\ UNCHANGED row
    /\ UNCHANGED <<waiting, left, sent, lost, fieldVars>>

\* 429, 401, a 402 or 403 of the quota, or a 500.
Refuse(p) ==
    /\ at[p] \in {"sent", "accepted"}
    /\ at' = [at EXCEPT ![p] = "refused"]
    /\ UNCHANGED <<waiting, left, sent, row, lost, fieldVars>>

\* serviceRequest.create; the Hedera anchor after it only delays the answer.
StageRow(p) ==
    /\ at[p] = "accepted"
    /\ at' = [at EXCEPT ![p] = "staged"]
    /\ UNCHANGED <<waiting, left, sent, row, lost, fieldVars>>

\* The answer: on to the dashboard, or an error and the form again.
AnswerPost(p) ==
    /\ waiting = p /\ at[p] \in {"staged", "unresolved", "refused"}
    /\ left' = (at[p] = "staged")
    /\ waiting' = NoPost
    /\ UNCHANGED <<at, sent, row, lost, fieldVars>>

\* The connection breaks: the form shows an error, the handler goes on.
LoseAnswer(p) ==
    /\ waiting = p /\ lost < MaxLost
    /\ lost' = lost + 1 /\ waiting' = NoPost
    /\ UNCHANGED <<left, at, sent, row, fieldVars>>

FormNext ==
    \/ \E v \in Inputs : EditField(v)
    \/ StartLookup
    \/ \E up \in BOOLEAN : AnswerLookup(up)
    \/ \E p \in Posts :
          \/ Submit(p) \/ Refuse(p) \/ StageRow(p) \/ AnswerPost(p) \/ LoseAnswer(p)
          \/ \E up \in BOOLEAN : Decide(p, up)

-----------------------------------------------------------------------------
\* A filing is staged a second time only after an answer was lost: nothing makes
\* the retry recognise the first one, and nothing else repeats it.
DuplicatesCostLostAnswers ==
    Cardinality({p \in Posts : at[p] \in {"accepted", "staged"}}) <= 1 + lost

\* The spinner never stays for ever, although an aborted lookup leaves it on.
LookupSettles == resolving ~> (~resolving \/ left)

=============================================================================
