------------------------------ MODULE Placement ------------------------------
(***************************************************************************)
(* Where a workload should run: the providers, PlacementEngine             *)
(* (providers.py), what an application asks of it (apps.py), and the       *)
(* registry in which the hosted gateway disables everything but the        *)
(* browser (server.py).  A decision never starts anything.                 *)
(*                                                                         *)
(* An input is large if it exceeds what the browser takes inline.          *)
(***************************************************************************)
EXTENDS Naturals, Sequences, SequencesExt

Modes == {"browser", "interactive", "batch", "service"}

Provider(id, modes, status, gpu, packages, persistent) ==
    [id |-> id, modes |-> modes, status |-> status, gpu |-> gpu, packages |-> packages,
     persistent |-> persistent]

DefaultProviders ==
    << Provider("browser", {"browser", "interactive"}, "available", FALSE, FALSE, FALSE),
       Provider("arc", {"interactive", "batch"}, "available", TRUE, TRUE, FALSE),
       Provider("common-platform", {"service"}, "planned", FALSE, TRUE, TRUE),
       Provider("cloud", {"batch", "service"}, "planned", TRUE, TRUE, TRUE) >>

HostedProviders ==
    [i \in DOMAIN DefaultProviders |->
        IF DefaultProviders[i].id = "browser" THEN DefaultProviders[i]
        ELSE [DefaultProviders[i] EXCEPT !.status = "planned"]]

Fits(provider, request) ==
    /\ request.mode \in provider.modes
    /\ request.gpu => provider.gpu
    /\ request.packages => provider.packages
    /\ request.persistent => provider.persistent
    /\ ~(request.large /\ provider.id = "browser")

(* A faulty variant does not ask whether the provider is enabled.          *)
SupportsOnPaper(provider, request) == Fits(provider, request)

Supports(provider, request) ==
    Fits(provider, request) /\ provider.status \in {"available", "experimental"}

Decision(provider, action, confidence) ==
    [provider |-> provider, action |-> action, confidence |-> confidence]

(* An unknown provider is an error.                                        *)
Raised == Decision("", "error", "")

(* A provider that was asked for by name.                                  *)
DecidePreferred(registry, request, allowed) ==
    LET named == {p \in ToSet(registry) : p.id = request.preferred}
        provider == CHOOSE p \in named : TRUE
    IN  IF named = {} THEN Raised
        ELSE IF allowed # {} /\ provider.id \notin allowed THEN Decision("", "review", "high")
        ELSE IF Supports(provider, request) THEN Decision(provider.id, "use", "high")
        ELSE Decision(provider.id, "review", "high")

(* The first class of providers of which one will do.                      *)
DecideAuto(registry, request, allowed) ==
    LET candidates == {i \in DOMAIN registry : allowed = {} \/ registry[i].id \in allowed}
        Enabled(id, modes) ==
            request.mode \in modes
            /\ \E i \in candidates : registry[i].id = id /\ Supports(registry[i], request)
        persistent == {i \in candidates : registry[i].persistent /\ Supports(registry[i], request)}
        planned == {i \in candidates : registry[i].status = "planned" /\ Fits(registry[i], request)}
        First(places) == registry[Min(places)]
    IN  IF Enabled("browser", {"browser", "interactive"}) THEN Decision("browser", "use", "high")
        ELSE IF Enabled("arc", {"interactive", "batch"}) THEN Decision("arc", "use", "high")
        ELSE IF persistent # {}
             THEN IF First(persistent).status = "available" THEN Decision(First(persistent).id, "use", "high")
                  ELSE Decision(First(persistent).id, "review", "medium")
        ELSE IF planned # {} THEN Decision(First(planned).id, "review", "medium")
        ELSE Decision("", "review", "high")

Decide(registry, request, allowed) ==
    IF request.preferred = "auto" THEN DecideAuto(registry, request, allowed)
    ELSE DecidePreferred(registry, request, allowed)

(* What an application asks for (ApplicationManifest.placement_request).   *)
RequestOf(application) ==
    [mode |-> IF application.type = "static" THEN "browser" ELSE application.type,
     preferred |-> application.provider, gpu |-> application.gpu,
     packages |-> application.packages,
     persistent |-> application.persistent \/ application.type = "service",
     large |-> application.large]

=============================================================================
