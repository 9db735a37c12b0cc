------------------------------- MODULE MCFX4 --------------------------------
EXTENDS FX4

MCChannels == {1, 2}
MCTriggerModes == {"ExtTrigger", "ExtGate", "ExtBulb"}
MCPolarities == {1}
MCModes == {"Single"}
=============================================================================
