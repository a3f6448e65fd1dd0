-------------------------- MODULE MCIngestReplay --------------------------
EXTENDS IngestReplay
=============================================================================
