-------------------------------- MODULE MCSse --------------------------------
EXTENDS SseProducer, TLC

MCMaxChunks == "s1" :> 3 @@ "s2" :> 1
=============================================================================
