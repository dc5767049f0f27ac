----------------------------- MODULE MCSessions -----------------------------
(* One user with a mobile app and a browser.  The app's two callers share a *)
(* flight; of the browser's, one is a 401 handler and one a page that loads. *)
EXTENDS Sessions, TLC

CONSTANTS u, app, web, a1, a2, w1, w2

MCUsers == {u}
MCClients == {app, web}
MCOwnerOf == [c \in MCClients |-> u]
MCApps == {app}
MCCallers == {a1, a2, w1, w2}
MCClientOf == a1 :> app @@ a2 :> app @@ w1 :> web @@ w2 :> web
MCFlights == {"app", "tab", "load"}
MCFlightOf == a1 :> "app" @@ a2 :> "app" @@ w1 :> "tab" @@ w2 :> "load"
MCPageLoads == {w2}
MCForms == {a1, w1}

=============================================================================
