--------------------------- MODULE ControlLimiter ---------------------------
(***************************************************************************)
(* The sliding windows in front of the gRPC control service                 *)
(* (services/grpc_server.go): every call counts in its address's general    *)
(* window, an import first in the import window.  allow runs under lim.mu,  *)
(* but an import's two calls are two critical sections.  Limits and window  *)
(* (60 and 10 in a minute) are constants here.                              *)
(***************************************************************************)
EXTENDS Integers, Sequences, FiniteSets

CONSTANTS
    GeneralLimit, ImportLimit,   \* calls in one window
    Window,                      \* the window, in ticks of the clock
    MaxClock                     \* bound: the clock

Buckets == {"general", "import"}
Limit(b) == IF b = "general" THEN GeneralLimit ELSE ImportLimit

VARIABLES
    cnow,       \* the clock
    requests,   \* lim.requests of one address: in each bucket the times kept,
                \* as a function of the number of the call
    importing,  \* imports between their two calls of allow
    admitted,   \* history: [bucket -> times of the calls that passed allow]
    spent,      \* history: imports that used a slot and were then refused
    wrong       \* history: allow refused a call with room in its window

cvars == <<cnow, requests, importing, admitted, spent, wrong>>

NoTimes == [k \in {} |-> 0]

Init ==
    /\ cnow = 0 /\ requests = [b \in Buckets |-> NoTimes] /\ importing = 0
    /\ admitted = [b \in Buckets |-> <<>>] /\ spent = 0 /\ wrong = FALSE

Advance == cnow < MaxClock /\ cnow' = cnow + 1 /\ UNCHANGED <<requests, importing, admitted, spent, wrong>>

(* Mutation: the cutoff is a tick too late.                                 *)
KeptLess(f) == [k \in {i \in DOMAIN f : f[i] > cnow - Window + 1} |-> f[k]]

Kept(f) == [k \in {i \in DOMAIN f : f[i] > cnow - Window} |-> f[k]]   \* t.After(cutoff)

(* One more time, as that of call n: append(filtered, now).                 *)
Stamped(f, n) == [k \in DOMAIN f \cup {n} |-> IF k = n THEN cnow ELSE f[k]]

(* The calls that passed within the window that ends now.                   *)
InWindow(b) == Cardinality({k \in DOMAIN admitted[b] : admitted[b][k] > cnow - Window})

allow(b, ok) ==
    /\ ok = (Cardinality(DOMAIN Kept(requests[b])) < Limit(b))
    /\ requests' = [requests EXCEPT ![b] = IF ok THEN Stamped(Kept(@), Len(admitted[b]) + 1)
                                                ELSE Kept(@)]
    /\ admitted' = [admitted EXCEPT ![b] = IF ok THEN Append(@, cnow) ELSE @]
    /\ wrong' = (wrong \/ (~ok /\ InWindow(b) < Limit(b)))
    /\ UNCHANGED cnow

Call(ok) == allow("general", ok) /\ UNCHANGED <<importing, spent>>

ImportFirst(ok) ==
    /\ allow("import", ok)
    /\ importing' = IF ok THEN importing + 1 ELSE importing
    /\ UNCHANGED spent

ImportSecond(ok) ==
    /\ importing > 0
    /\ allow("general", ok)
    /\ importing' = importing - 1
    /\ spent' = IF ok THEN spent ELSE spent + 1

Next ==
    \/ Advance
    \/ \E ok \in BOOLEAN : Call(ok) \/ ImportFirst(ok) \/ ImportSecond(ok)

----------------------------------------------------------------------------
(* In every window of the configured length, wherever it begins, at most     *)
(* Limit calls pass; no call is refused while its window has room; and the   *)
(* imports that lost their slot to the general window are among the calls    *)
(* that the import window admitted.                                          *)
WindowBound ==
    /\ \A b \in Buckets : \A from \in 0 .. cnow :
          Cardinality({k \in DOMAIN admitted[b] :
                          admitted[b][k] \in from .. from + Window - 1}) <= Limit(b)
    /\ ~wrong
    /\ spent + importing <= Len(admitted["import"])
=============================================================================
