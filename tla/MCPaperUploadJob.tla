-------------------------- MODULE MCPaperUploadJob --------------------------
(* The model-checked instances of PaperUploadJob.                          *)
EXTENDS PaperUploadJob
=============================================================================
