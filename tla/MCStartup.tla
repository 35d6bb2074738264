------------------------------ MODULE MCStartup ------------------------------
(* Two robots, in both accounts, and environments with one to three entries. *)
EXTENDS Startup

MCDefaultName == <<"vacuum-0", "vacuum-1", "vacuum-2">>

Device(did, name, ip, token) == [did |-> did, name |-> name, localIP |-> ip, token |-> token]
Entry(backend, host, token, name, did) ==
    [backend |-> backend, host |-> host, token |-> token, name |-> name, did |-> did]

MCAppDevices == <<Device("duid1", "Ground", "ip1", ""), Device("duid2", "Upper", "ip2", "")>>

MCDeviceLists ==
    {<<Device("did1", "Ground", a[1], "tok1"), Device("did2", "Upper", a[2], "tok2")>> :
        a \in {<<"ip1", "ip2">>, <<"ip2", "ip1">>, <<"ip3", "ip1">>}}

ByHost   == Entry("", "ip1", "", "", "")
ByToken  == Entry("xiaomi", "", "tok2", "", "")
ByBoth   == Entry("xiaomi", "ip1", "tok1", "Ground", "")
ByName   == Entry("", "", "", "Upper", "")
ByDid    == Entry("xiaomi", "", "", "", "did1")
OfApp    == Entry("cloud", "", "", "Ground", "duid1")
OnLan    == Entry("local", "ip2", "tok2", "", "")
Nothing  == Entry("", "", "", "", "")

Environment(control, entries, imported) ==
    [control |-> control, entries |-> entries, imported |-> imported]

MCEnvironments ==
    {Environment("xiaomi", <<a, b>>, "s1") : a \in {ByHost, ByDid}, b \in {ByName, Nothing}}
    \cup {Environment("xiaomi", <<a, b, c>>, "none") :
            a \in {ByBoth, ByDid}, b \in {ByToken, OfApp, Nothing}, c \in {ByName, OnLan}}
    \cup {Environment(control, <<OnLan, ByName, b>>, "none") :
            control \in {"mixed", "cloud", "other"}, b \in {ByBoth, ByHost}}
    \cup {Environment("xiaomi", <<ByHost, ByBoth>>, "none")}

\* What the README lets a user write for a robot of the Roborock account.
MCAppEnvironments ==
    {Environment("roborock", <<e>>, "none") : e \in {OfApp, ByName, ByHost}}
=============================================================================
