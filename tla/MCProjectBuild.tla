------------------------ MODULE MCProjectBuild -------------------------
(* Two modules of the project and a standard library of two.             *)
EXTENDS ProjectBuild

CONSTANTS app, util, core, prelude

MCIds == {app, util, core, prelude}
MCStdIds == {core, prelude}
MCStdManifest == core :> <<>> @@ prelude :> <<core>>
\* Among them: a dependency named twice, two cycles, a module nobody has, a
\* project that does not hold its entry, and one with a core of its own,
\* which closes a cycle through the prelude that is injected.
MCManifests ==
    {app :> <<util>> @@ util :> <<>>,
     app :> <<util, util>> @@ util :> <<>>,
     app :> <<util>> @@ util :> <<app>>,
     app :> <<app>>,
     app :> <<util>>,
     util :> <<>>,
     app :> <<core>> @@ core :> <<>>,
     app :> <<util>> @@ util :> <<>> @@ core :> <<util>>}

=======================================================================
