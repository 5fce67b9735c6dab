------------------------------ MODULE MCJar -----------------------------------
(* A profile's directory and its cookie jar, from two sides explored one at a  *)
(* time.  The processes around the directory: three, each of any role (two     *)
(* hosts and a removal, two removals and a host, two fetches and a removal).   *)
(* One fetch and its jar: two sites under one suffix, a name below one of them,*)
(* plaintext and https, and builders that each bring one way of asking.        *)
EXTENDS ProfileStore, HttpPath, TLC
MCHosts == {"com", "a.com", "w.a.com", "b.com"}
MCUp == [h \in MCHosts |-> {h, "com"} \cup (IF h = "w.a.com" THEN {"a.com"} ELSE {})]
MCSuffixes == {"com"}
Root == "/"
In == "/in"
MCPathUp == [p \in {Root, In} |-> {p, Root}]
MCDir == [p \in {Root, In} |-> Root]
Page(s, h, p) == [scheme |-> s, host |-> h, path |-> p]
Home == Page("https", "a.com", Root)
MCUrls == {Home, Page("http", "a.com", Root), Page("https", "w.a.com", In), Page("https", "b.com", Root)}
Offer(d, s, g) == [name |-> "sid", domain |-> d, path |-> None, secure |-> s, gone |-> g]
MCOffers == {Offer(None, FALSE, FALSE), Offer("a.com", TRUE, FALSE), Offer("com", FALSE, FALSE),
             Offer("a.com", FALSE, TRUE)}
MCJars == {{}, {Entry("sid", "a.com", FALSE, Root, TRUE, "a.com", "mine")}}
Plain == [url |-> Home, render |-> "auto", method |-> "GET", headers |-> {"accept"},
          rawCookies |-> 0, cookies |-> {}, userAgents |-> 1, body |-> "none",
          evaluate |-> FALSE, wantsContent |-> FALSE, proxied |-> FALSE,
          jar |-> "work", noJar |-> FALSE]
Client(k, s, i, l, a, q) ==
  [kind |-> k, started |-> s, info |-> i, local |-> l, active |-> a, asks |-> q]
Cold == Client("inline", FALSE, TRUE, TRUE, "work", None)
Warm == Client("inline", TRUE, TRUE, TRUE, "work", None)
Work == Client("external", TRUE, TRUE, FALSE, "work", "work")
Mute == Client("external", TRUE, FALSE, FALSE, "work", None)
Play == Client("external", TRUE, TRUE, FALSE, "work", "play")
Bare == Client("hostless", FALSE, FALSE, FALSE, "temp", None)
Setting(a, c) == [caller |-> a, client |-> c]
Sid == Entry("sid", "a.com", FALSE, Root, TRUE, "caller", "own")
MCSettings ==
  { Setting(Plain, Work), Setting(Plain, Bare), Setting([Plain EXCEPT !.render = "always"], Play),
    Setting([Plain EXCEPT !.render = "always", !.url = Page("http", "a.com", Root)], Work),
    Setting([Plain EXCEPT !.rawCookies = 1, !.headers = {"authorization", "accept"},
                          !.wantsContent = TRUE, !.jar = None], Warm),
    Setting([Plain EXCEPT !.method = "POST", !.body = "bytes", !.evaluate = TRUE], Work),
    Setting([Plain EXCEPT !.method = "POST", !.body = "form", !.proxied = TRUE, !.cookies = {Sid},
                          !.headers = {"content-type", "authorization"}], Mute),
    Setting([Plain EXCEPT !.render = "none", !.method = "HEAD", !.noJar = TRUE,
                          !.cookies = {[Sid EXCEPT !.path = In]}], Bare),
    Setting([Plain EXCEPT !.render = "always", !.evaluate = TRUE, !.jar = None], Cold),
    Setting([Plain EXCEPT !.jar = "stray", !.evaluate = TRUE], Work),
    Setting([Plain EXCEPT !.body = "both", !.jar = None], Cold) }

-----------------------------------------------------------------------------
VARIABLE part

Symmetry == Permutations(Procs)
Aside(p, set, v) == part # p => v = CHOOSE x \in set : TRUE

SidesInit ==
  /\ part \in {"directory", "fetch"}
  /\ Init /\ (part # "directory" => ~dir /\ ~aged)
  /\ HttpInit /\ Aside("fetch", Settings, [caller |-> caller, client |-> client])
  /\ Aside("fetch", Jars, jar)

SidesNext ==
  /\ UNCHANGED part
  /\ \/ part = "directory" /\ Next /\ UNCHANGED httpVars
     \/ part = "fetch" /\ HttpNext /\ UNCHANGED vars

SidesSpec == SidesInit /\ [][SidesNext]_<<part, vars, httpVars>>
===============================================================================
