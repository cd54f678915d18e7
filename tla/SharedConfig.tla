---------------------------- MODULE SharedConfig ----------------------------
(***************************************************************************)
(* web: useServerConfig.  One promise of /api/config for the whole tab,    *)
(* shared by every component that calls the hook, and in each of them a    *)
(* copy of the limits that starts from the fallback.                       *)
(***************************************************************************)
EXTENDS Naturals

CONSTANT Hooks        \* the components that call useServerConfig

VARIABLES
    pending,          \* the module's promise
    limits            \* what each hook returns

configVars == <<pending, limits>>

NoPromise == "null"
Promises == {NoPromise, "requested", "fulfilled"}

\* "fallback": mounted with FALLBACK, its callbacks on the promise still to run;
\* "kept": they ran on a rejection, so FALLBACK stays for as long as it is mounted.
Limits == {"unmounted", "fallback", "kept", "server"}

ConfigInit ==
    /\ pending = NoPromise
    /\ limits = [h \in Hooks |-> "unmounted"]

\* A commit after which the hooks of the old page are still around.
RemountKeeping(gone, come) ==
    /\ limits' = [h \in Hooks |-> IF h \in come THEN "fallback" ELSE limits[h]]
    /\ pending' = IF come # {} /\ pending = NoPromise THEN "requested" ELSE pending

\* A commit that unmounts the hooks of `gone` and mounts those of `come`, whose
\* effects do `pending ??= fetchConfig()` and put two callbacks on the promise.
Remount(gone, come) ==
    /\ limits' = [h \in Hooks |-> IF h \in come THEN "fallback"
                                  ELSE IF h \in gone THEN "unmounted" ELSE limits[h]]
    /\ pending' = IF come # {} /\ pending = NoPromise THEN "requested" ELSE pending

\* The answer of /api/config.
Fulfil ==
    /\ pending = "requested"
    /\ pending' = "fulfilled"
    /\ UNCHANGED limits

\* The callback of `then`, in each component by itself.
Adopt(h) ==
    /\ pending = "fulfilled" /\ limits[h] = "fallback"
    /\ limits' = [limits EXCEPT ![h] = "server"]
    /\ UNCHANGED pending

\* A rejection that leaves the rejected promise in place.
RejectKeeping ==
    /\ pending = "requested"
    /\ pending' = "rejected"
    /\ limits' = [h \in Hooks |-> IF limits[h] = "fallback" THEN "kept" ELSE limits[h]]

\* The request fails: the `catch` of every mount runs before anything else can,
\* an unmounted one's too, and all of them set the promise back to null.
Reject ==
    /\ pending = "requested"
    /\ pending' = NoPromise
    /\ limits' = [h \in Hooks |-> IF limits[h] = "fallback" THEN "kept" ELSE limits[h]]

-----------------------------------------------------------------------------
ConfigTypeOK ==
    /\ pending \in Promises
    /\ limits \in [Hooks -> Limits]

\* A component that still shows the fallback without having seen a failure has a
\* request under way or a fulfilled promise that will reach it: a rejected promise is
\* not kept for those who mount later (use-server-config.ts:23,29-32).
FallbackIsTemporary ==
    \A h \in Hooks : limits[h] = "fallback" => pending \in {"requested", "fulfilled"}
=============================================================================
