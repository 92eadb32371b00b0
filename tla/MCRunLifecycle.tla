--------------------------- MODULE MCRunLifecycle ---------------------------
(***************************************************************************)
(* RunLifecycle on three of the registered domains: a browser that owns    *)
(* three things, a connection, and a domain with nothing to open.          *)
(***************************************************************************)
EXTENDS RunLifecycle

MCDomains == {"web", "db", "mac"}

MCLayers == [d \in MCDomains |->
               CASE d = "web" -> <<"playwright", "browser", "context">>
                 [] d = "db"  -> <<"connection">>
                 [] d = "mac" -> <<>>]

\* Beside the shared browser, a row opens its context only.
MCSharedLayers == [MCLayers EXCEPT !["web"] = <<"context">>]

MCTidy == {"db", "mac"}

Ask(d)   == [domain |-> d, login |-> FALSE]
Login(d) == [domain |-> d, login |-> TRUE]

\* Plans that mix the domains in both orders, come back to one, name a domain
\* nobody registered, and log in.
Plans == {<<Ask("db"), Ask("web")>>,
          <<Ask("web"), Ask("db"), Ask("mac")>>,
          <<Login("web"), Ask("none")>>,
          <<Ask("unknown"), Ask("web")>>}

MCConfigs == [data : {FALSE}, rows : {1}, primary : {"web", "db"},
              persists : BOOLEAN, plan : Plans]
             \cup
             [data : {TRUE}, rows : {0, 2}, primary : {"web", "db"},
              persists : BOOLEAN, plan : Plans]

=============================================================================
