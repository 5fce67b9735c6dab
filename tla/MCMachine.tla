------------------------------ MODULE MCMachine ------------------------------
(* What runs on one machine, explored one side at a time.  Hosts: two that    *)
(* want one profile, two of different families and one with a display, and a  *)
(* Client with an inline host beside a host that is refused.  Commands: two   *)
(* about one container name, with the images and containers that older        *)
(* installs or people left behind.                                            *)
EXTENDS ClientHost, Container, TLC

CONSTANTS h1, h2, c1, c2, p1, p2

Arg(family, profile, takeover, listen) ==
  [family |-> family, profile |-> profile, takeover |-> takeover, listen |-> listen]
Shared == Arg("chromium", "p", FALSE, "own")
MCSetups == {
  h1 :> Shared @@ h2 :> Shared,
  h1 :> Arg("camoufox", "-", TRUE, "own") @@ h2 :> Arg("chromium", "-", TRUE, "own"),
  h1 :> Arg("lightpanda", "p", FALSE, "own") @@ h2 :> Arg("lightpanda", "-", TRUE, "own"),
  h1 :> Arg("chromium", "-", FALSE, "inline") @@ h2 :> Arg("chromium", "-", FALSE, "-")}

Install(with, takeover, browser, to) ==
  [kind |-> "install", with |-> with, takeover |-> takeover, browser |-> browser,
   persistent |-> FALSE, port |-> to, rebuild |-> FALSE, purge |-> FALSE]
Plain(kind) == [Install({}, FALSE, None, None) EXCEPT !.kind = kind]
Pair(a, b) == p1 :> a @@ p2 :> b
Default == Install({}, TRUE, None, "9222")
Lean == Install({"camoufox"}, FALSE, "camoufox", "9333")
Purge == [Plain("uninstall") EXCEPT !.purge = TRUE]
MCJobs == {
  Pair(Default, Lean), Pair(Default, Purge),
  Pair([Lean EXCEPT !.persistent = TRUE], Install({}, TRUE, "camoufox", "9222")),
  Pair(Plain("discover"), Lean), Pair([Plain("discover") EXCEPT !.takeover = TRUE], Plain("uninstall")),
  Pair(Plain("status"), Lean), Pair(Plain("token"), Purge)}

Nothing == [t \in Tags |-> NoImage]
Built(made) == [t \in Tags |-> IF t = Usual THEN made ELSE NoImage]
World(c, made, hand) == [con |-> c, images |-> made, handmade |-> hand]
\* Nothing yet, an image made by hand, and the container of someone else, of an
\* older afhttp, without a published port, and as it should be.
MCWorlds == {
  World(NoCon, Nothing, {}), World(NoCon, Built({"brave"}), {Usual}),
  World([Settled EXCEPT !.foreign = TRUE], Nothing, {}),
  World([Settled EXCEPT !.old = TRUE], Built(Usual), {}),
  World([Settled EXCEPT !.port = None], Built(Usual), {}),
  World(Settled, Built(Usual), {})}

-----------------------------------------------------------------------------
VARIABLE part

Aside(p, set, v) == part # p => v = CHOOSE x \in set : TRUE

SidesInit ==
  /\ part \in {"hosts", "commands"}
  /\ Init /\ Aside("hosts", Setups, args)
  /\ ContInit /\ Aside("commands", Jobs, cmd)
  /\ part = "hosts" => (con = NoCon /\ handmade = {} /\ runtime = "docker")

SidesNext ==
  /\ UNCHANGED part
  /\ \/ part = "hosts" /\ Next /\ UNCHANGED contVars
     \/ part = "commands" /\ ContNext /\ UNCHANGED vars

SidesSpec == SidesInit /\ [][SidesNext]_<<part, vars, contVars>>
=============================================================================
