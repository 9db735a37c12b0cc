-------------------------------- MODULE MCT4U --------------------------------
EXTENDS T4U

Scenario(settings, messages) == [settings |-> settings, messages |-> messages]

MCScenarios ==
  {Scenario({<<"Range", -1>>, <<"Range", 1>>, <<"Range", 3>>}, 2),
   Scenario({<<"SampleFreq", 2>>, <<"AveragingTime", 2>>}, 0),
   Scenario({<<"BiasN", 1>>, <<"BiasN", 0>>, <<"PulseBias", 1>>}, 0),
   Scenario({<<"PosTrackMode", 5>>, <<"PIDHystEn", 0>>, <<"DACMode", 2>>}, 0),
   Scenario({<<"PIDYSp", -100>>, <<"PIDHyst", 333>>, <<"BiasNVoltage", 5>>}, 0)}
=============================================================================
