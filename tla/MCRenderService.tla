-------------------------- MODULE MCRenderService ---------------------------
(***************************************************************************)
(* Values for the constants of RenderService that a .cfg cannot write.     *)
(***************************************************************************)
EXTENDS RenderService

CONSTANTS a,             \* a collection id
          w1, w2,        \* workers
          h1, h2,        \* hosts
          latex, text,   \* writers
          r1, r2         \* request slots

\* "rl" is the alias that defaults.js gives the LaTeX writer.
MCWriterNames == {"rl", latex, text, "odf"}
MCAliases == [n \in {"rl"} |-> latex]

Ask(id, via, force, writer) == [id |-> id, via |-> via, force |-> force, writer |-> writer]

\* Clients that send the book.
BookParams == {Ask(id, "metabook", FALSE, "rl") : id \in CollectionIds}

\* Every kind of request, good and bad, for one book.
AllParams == {Ask(a, "metabook", FALSE, "rl"), Ask(a, "both", TRUE, latex), Ask(a, "id", TRUE, "rl"),
              Ask(a, "id", FALSE, "odf"), Ask(a, "neither", FALSE, latex),
              Ask(a, "unparsable", FALSE, latex)}

\* One book, always rendered anew.
ForcedParams == {Ask(a, "metabook", TRUE, "rl")}

OneHost == [w \in Workers |-> h1]

=============================================================================
