-------------------------------- MODULE Docs --------------------------------
(***************************************************************************)
(* web: the API reference.  The endpoints it lists, the rows a reader has  *)
(* open, and the "try it" panel of each open row.                          *)
(***************************************************************************)
EXTENDS Naturals, FiniteSets

CONSTANT Watched      \* bound: the endpoints the reader plays with

VARIABLES
    panels,           \* the TryIt of each watched endpoint, or Closed
    sent              \* the requests of that panel still under way

docsVars == <<panels, sent>>

Endpoint(method, path, code, body) ==
    [method |-> method, path |-> path, needsCode |-> code, hasBody |-> body]

STATS == Endpoint("GET", "/api/stats", FALSE, FALSE)

ENDPOINTS == {
    Endpoint("POST", "/api/pastes", FALSE, TRUE),
    Endpoint("GET", "/api/pastes/{code}", TRUE, FALSE),
    Endpoint("GET", "/raw/{code}", TRUE, FALSE),
    Endpoint("GET", "/download/{code}", TRUE, FALSE),
    Endpoint("GET", "/api/config", FALSE, FALSE),
    Endpoint("GET", "/healthz", FALSE, FALSE),
    Endpoint("POST", "/documents", FALSE, FALSE),
    Endpoint("GET", "/documents/{code}", TRUE, FALSE) }

\* DocsPage: what is listed, given config.statsPublic.
Listed(statsPublic) == IF statsPublic THEN ENDPOINTS \cup {STATS} ELSE ENDPOINTS

\* Detail has parameters or a body to describe, and so a Fields with its own hook.
HasFields(e) == e.needsCode \/ e.hasBody

\* The reader plays with endpoints that the page may list.
ASSUME DocsAssumption == Watched \subseteq ENDPOINTS \cup {STATS}

Closed == [open |-> FALSE, code |-> FALSE, sending |-> FALSE, result |-> "none"]
Fresh == [Closed EXCEPT !.open = TRUE]

Panels == [open : BOOLEAN, code : BOOLEAN, sending : BOOLEAN,
           result : {"none", "response", "failure"}]

DocsInit ==
    /\ panels = [e \in Watched |-> Closed]
    /\ sent = [e \in Watched |-> 0]

\* Row: a click opens the detail with a fresh panel.
OpenRow(e, statsPublic) ==
    /\ e \in Watched \cap Listed(statsPublic) /\ ~panels[e].open
    /\ panels' = [panels EXCEPT ![e] = Fresh]
    /\ UNCHANGED sent

\* Row: a click closes it and unmounts the panel.  A request of its goes on, but what
\* it sets when it is answered is nobody's state any more.
CloseRow(e) ==
    /\ panels[e].open
    /\ panels' = [panels EXCEPT ![e] = Closed]
    /\ sent' = [sent EXCEPT ![e] = 0]

\* The reader fills in or clears the code of a path that has one.
TypeCode(e) ==
    /\ panels[e].open /\ e.needsCode
    /\ panels' = [panels EXCEPT ![e].code = ~@]
    /\ UNCHANGED sent

\* A button that is not disabled while its request is under way.
SendAgain(e) ==
    /\ panels[e].open /\ e.needsCode => panels[e].code
    /\ sent[e] < 2
    /\ panels' = [panels EXCEPT ![e].sending = TRUE, ![e].result = "none"]
    /\ sent' = [sent EXCEPT ![e] = @ + 1]

\* TryIt, send up to the await: the button is disabled while sending, and without a
\* code where one is needed.
Send(e) ==
    /\ panels[e].open /\ ~panels[e].sending
    /\ e.needsCode => panels[e].code
    /\ panels' = [panels EXCEPT ![e].sending = TRUE, ![e].result = "none"]
    /\ sent' = [sent EXCEPT ![e] = @ + 1]

\* The rest of send: an answer of any status, or a network failure.
Settle(e) ==
    /\ sent[e] > 0
    /\ \E outcome \in {"response", "failure"} :
          panels' = [panels EXCEPT ![e].sending = FALSE, ![e].result = outcome]
    /\ sent' = [sent EXCEPT ![e] = @ - 1]

\* The page is left.
CloseDocs ==
    /\ panels' = [e \in Watched |-> Closed]
    /\ sent' = [e \in Watched |-> 0]

-----------------------------------------------------------------------------
DocsTypeOK ==
    /\ panels \in [Watched -> Panels]
    /\ sent \in [Watched -> 0 .. 2]

\* The panel says "sending" exactly as long as one request of its own is under way,
\* and there are never two whose answers would overwrite each other: closing and
\* reopening the row starts over, whatever the old request does (docs.tsx:339-369).
TryItSingleFlight ==
    \A e \in Watched : sent[e] = IF panels[e].sending THEN 1 ELSE 0
=============================================================================
