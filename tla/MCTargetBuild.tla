--------------------------- MODULE MCTargetBuild ---------------------------
(* The method lists packages declare, up to three fallbacks long.          *)
EXTENDS TargetBuild

MCMethods ==
  {<<"composer-default">>, <<"windows-binary">>,
   <<"pre-packaged-source", "composer-default">>,
   <<"pre-packaged-binary", "pre-packaged-source", "composer-default">>}
=============================================================================
