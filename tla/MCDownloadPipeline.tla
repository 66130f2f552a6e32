------------------------ MODULE MCDownloadPipeline ------------------------
(* Small instances of DownloadPipeline for TLC.                           *)
EXTENDS DownloadPipeline

CONSTANTS d1, d2, d3, i1, u1, u2, h1, h2, v1, r1, r2

OneHash   == [u \in Urls |-> h1]
OneVideo  == [h \in Hashes |-> Videos]
\* An archive-only release.
NoVideo   == [h \in Hashes |-> {}]
=============================================================================
