-------------------------- MODULE MCRenderPipeline --------------------------
(* RenderPipeline for model checking; the configurations give each hardware  *)
(* profile and the bounds on what the guest and the buttons do.              *)
EXTENDS RenderPipeline
=============================================================================
