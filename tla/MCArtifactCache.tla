--------------------------- MODULE MCArtifactCache ---------------------------
EXTENDS ArtifactCache
=============================================================================
