----------------------------- MODULE MCDispatch -----------------------------
(* The routes a build produces, each under the configurations that treat it apart. *)
EXTENDS Dispatch

Base == [router |-> "app", asset |-> "none", handler |-> TRUE, window |-> NoWindow, tags |-> {Tag},
         ppr |-> "none", keyed |-> "none", strict |-> FALSE, edge |-> FALSE, owned |-> TRUE,
         runtimeStatic |-> FALSE, ssgTemplate |-> FALSE]

AppStatic == [Base EXCEPT !.asset = "seed", !.window = 2]
AppStale == [AppStatic EXCEPT !.window = 1]
HandlerlessPage == [Base EXCEPT !.router = "pages", !.asset = "seed", !.handler = FALSE]
FallbackSkeleton == [Base EXCEPT !.router = "pages", !.asset = "skeleton"]
PprPage == [Base EXCEPT !.asset = "ppr", !.ppr = "build-shell", !.window = 2]
PprTemplate == [Base EXCEPT !.ppr = "build-shell", !.window = 2]
RuntimeCapture == [Base EXCEPT !.ppr = "runtime-capture", !.keyed = "full", !.tags = {}]
PartlyKeyed == [RuntimeCapture EXCEPT !.keyed = "partial"]
RootParams == [Base EXCEPT !.ppr = "root-params", !.keyed = "full", !.tags = {}]
RuntimeStatic == [Base EXCEPT !.runtimeStatic = TRUE, !.window = 1]
SsgInstance == [Base EXCEPT !.ssgTemplate = TRUE, !.window = 1]
Small == {[Base EXCEPT !.asset = "file", !.tags = {}], [Base EXCEPT !.strict = TRUE],
          [Base EXCEPT !.edge = TRUE], [Base EXCEPT !.owned = FALSE],
          [Base EXCEPT !.handler = FALSE]}

Plain_(kinds) == kinds \X {"none"}
AppKinds == Plain_({"document", "head", "rsc", "segment"}) \cup {<<"document", "revalidate">>}
PprKinds == Plain_({"document", "resumed", "rsc", "segment"})
PagesKinds == Plain_({"document", "data", "dataPrefetch", "write"})
AllKinds == Plain_({"document", "head", "prefetch", "rsc", "segment", "write", "action"})
            \cup {<<"document", "draft">>}

Under(modes, routes, kinds, pages) ==
    [mode: modes, route: routes, kinds: {kinds}, pages: {pages}]

MCScenarios ==
    LET one == {CHOOSE p \in Pages : TRUE}
    IN  UNION {Under({"shared", "valkey"}, {AppStatic, AppStale, RuntimeStatic}, AppKinds, one),
               Under({"shared", "emulate"}, {SsgInstance}, AppKinds, one),
               Under({"shared"}, {HandlerlessPage, FallbackSkeleton}, PagesKinds, one),
               Under({"emulate"}, {FallbackSkeleton}, PagesKinds, Pages),
               Under({"shared"}, {PprPage}, PprKinds, one),
               Under({"valkey", "plain"}, {PprPage}, PprKinds, Pages),
               Under({"shared"}, {PprTemplate}, Plain_({"document", "segment"}), Pages),
               Under({"partial"}, {PprTemplate, RuntimeCapture}, PprKinds, one),
               Under({"emulate"}, {PprPage}, PprKinds, one),
               Under({"shared", "emulate"}, {RuntimeCapture, PartlyKeyed, RootParams}, PprKinds, Pages),
               Under({"plain"}, Small, AllKinds, one)}
MCDurations == {Hard, Profile}
=============================================================================
