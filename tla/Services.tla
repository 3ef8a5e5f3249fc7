------------------------------ MODULE Services ------------------------------
(***************************************************************************)
(* What loop() serves beside PU and the browser: the console and the       *)
(* discovery.  They share nothing but the loop, so a behaviour is of one   *)
(* or of the other.                                                        *)
(***************************************************************************)
EXTENDS Console, SSDPDevice

VARIABLE service    \* which of them this behaviour is of

servicesVars == <<service, vars, discoveryVars>>

ServicesInit ==
    /\ service \in {"console", "discovery"}
    /\ Init /\ (service = "discovery" => flash = "blank" /\ effect = ram)
    /\ DiscoveryInit

ServicesNext ==
    \/ service = "console" /\ Next /\ UNCHANGED <<service, discoveryVars>>
    \/ service = "discovery" /\ DiscoveryNext /\ UNCHANGED <<service, vars>>

ServicesSpec == ServicesInit /\ [][ServicesNext]_servicesVars

=============================================================================
