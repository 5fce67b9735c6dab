-------------------------------- MODULE MCPage --------------------------------
(* What becomes of a fetch's page: the navigation's intercepted requests, a   *)
(* navigation that is a download, the waits, the streams it listens to and the *)
(* capture.  They share no state, so each is explored while the others rest.  *)
EXTENDS Readiness, Intercept, Downloads, PageCapture, Streams, Waits, TLC

VARIABLE part

\* Of the contents only which are the same matters.
ContentsAreAlike == Permutations(Contents)

World(ids, kid, where, strict, limit, lossy) ==
  [ids |-> ids, kid |-> kid, where |-> where, strict |-> strict, limit |-> limit,
   lossy |-> lossy]

\* A subresource, with little room or with a reader that is outrun; a redirect
\* of it; a script redirect; a child frame that the tree or only the network
\* knows of.
MCWorlds == {
  World({"d1", "s"}, Nowhere, Nowhere, TRUE, 4, TRUE),
  World({"d1", "s"}, Nowhere, Nowhere, TRUE, 1, FALSE),
  World({"d1", "s", "s#redirect"}, Nowhere, Nowhere, TRUE, 2, FALSE),
  World({"d1", "d2"}, Nowhere, Nowhere, FALSE, 4, FALSE),
  World({"d1", "k"}, "target", "tree", FALSE, 4, FALSE),
  World({"d1", "k"}, "ancillary", "network", FALSE, 4, FALSE)}

Ask(o, f, s, u) == [override |-> o, form |-> f, scoped |-> s, used |-> u]
MCAsks == {Ask(o, o, s, u) : o \in BOOLEAN, s \in BOOLEAN, u \in BOOLEAN}

\* Names of their own; the same name; one that is the other's numbered form; a
\* browser that writes under the final name from the start.
Plan(n1, n2, n3, staged) ==
  [name |-> "fetch" :> n1 @@ "tab2" :> n2 @@ "user" :> n3, staged |-> staged]
MCPlans == {Plan("a", "b", "a", TRUE), Plan("a", "a", "b", TRUE), Plan("a", "b", "c", FALSE),
            Plan("a", "a_1", "b", TRUE)}

\* Takeovers of a new and of a used tab, a plain fetch with everything that may
\* fail, and one that captures the responses' bodies.
Order(w, t, c, e, j) ==
  [wanted |-> w, takeover |-> t, created |-> c, evaluate |-> e, jar |-> j]
MCOrders == {
  Order({"rendered_html", "content"}, TRUE, TRUE, FALSE, FALSE),
  Order({"text", "body"}, TRUE, FALSE, FALSE, FALSE),
  Order({"body", "network"}, FALSE, TRUE, TRUE, TRUE),
  Order({"observation", "bodies"}, FALSE, FALSE, FALSE, FALSE)}
Page(m, d, t, w, r, l, b) ==
  [main |-> m, dom |-> d, text |-> t, wall |-> w, ready |-> r, loss |-> l, large |-> b]
MCPages == {
  Page("ok", TRUE, TRUE, FALSE, "complete", FALSE, FALSE),
  Page("ok", TRUE, TRUE, FALSE, "loading", TRUE, FALSE),
  Page("ok", TRUE, TRUE, TRUE, "complete", FALSE, FALSE),
  Page("denied", TRUE, TRUE, FALSE, "complete", FALSE, TRUE),
  Page("pending", TRUE, TRUE, FALSE, "loading", FALSE, FALSE),
  Page("ok", FALSE, FALSE, FALSE, "complete", TRUE, FALSE)}
MCBodies == [small |-> [size |-> 1, length |-> 1], big |-> [size |-> 3, length |-> 3],
             packed |-> [size |-> 3, length |-> 0]]

\* Two WebSockets, of which one finds no room, and a stream of events.
MCKinds == "ws1" :> "ws" @@ "ws2" :> "ws" @@ "sse" :> "sse"
MCFramesMax == "ws1" :> 3 @@ "ws2" :> 1 @@ "sse" :> 1

-----------------------------------------------------------------------------
Rests(p, set, v) == part # p => v = CHOOSE x \in set : TRUE

PagesInit ==
  /\ part \in {"wait", "plain wait", "navigation", "download", "capture", "streams"}
  /\ ReadyInit /\ Rests("wait", Worlds, world)
  /\ InterceptInit /\ Rests("navigation", Asks, ask)
  /\ DownloadInit /\ Rests("download", Plans, plan)
  /\ (part # "download" => \A s \in Savers : disk[s] = NoFile)
  /\ PageInit /\ Rests("capture", Orders, order) /\ Rests("capture", Pages, tabPage)
  /\ StreamsInit
  /\ WaitsInit /\ (part # "plain wait" => wait = "idle" /\ ~holds) /\ Rests("plain wait", Limits, spare)

PagesNext ==
  /\ UNCHANGED part
  /\ \/ /\ part = "wait" /\ ReadyNext
        /\ UNCHANGED <<interceptVars, downloadVars, captureVars, streamVars, waitVars>>
     \/ /\ part = "navigation" /\ InterceptNext
        /\ UNCHANGED <<readyVars, downloadVars, captureVars, streamVars, waitVars>>
     \/ /\ part = "download" /\ DownloadNext
        /\ UNCHANGED <<readyVars, interceptVars, captureVars, streamVars, waitVars>>
     \/ /\ part = "capture" /\ CaptureNext
        /\ UNCHANGED <<readyVars, interceptVars, downloadVars, streamVars, waitVars>>
     \/ /\ part = "streams" /\ StreamsNext
        /\ UNCHANGED <<readyVars, interceptVars, downloadVars, captureVars, waitVars>>
     \/ /\ part = "plain wait" /\ WaitsNext
        /\ UNCHANGED <<readyVars, interceptVars, downloadVars, captureVars, streamVars>>

PagesSpec == PagesInit /\ [][PagesNext]_<<part, readyVars, interceptVars, downloadVars,
                                          captureVars, streamVars, waitVars>>
===============================================================================
